---------------------------- MODULE Spec2Model ----------------------------
(***************************************************************************)
(* WebWhisper task supervision core.                                       *)
(*                                                                         *)
(*   webwhisper/models/task.py        TranscriptionTask, TaskStatus        *)
(*   webwhisper/core/task_manager.py  TaskManager (the registry)           *)
(*   webwhisper/utils/whisper_utils.py transcribe_audio,                   *)
(*                                     run_whisper_process (the supervisor)*)
(*                                                                         *)
(* Task objects live in a heap (heap[o]); the registry maps ids to heap    *)
(* objects in insertion order (an OrderedDict).  Every successful          *)
(* start_task launches one supervisor thread (thr[t]) that walks through   *)
(* _run_transcription.  The registry methods run entirely under            *)
(* TaskManager.lock, so each is one atomic action; the supervisor holds    *)
(* the lock only in its first and last step.                               *)
(***************************************************************************)
EXTENDS Integers, Sequences, FiniteSets, TLC

(* ------------------------------ bounds -------------------------------- *)
MaxObjs    == 3      \* create_task calls in a run of SpecCapacity
MaxThreads == 2      \* supervisor threads launched in a run of Spec
SupObjs    == 2      \* create_task calls in a run of Spec
CapThreads == 1      \* supervisor threads launched in a run of SpecCapacity
MaxTime    == 1      \* last value of the clock
MaxLines   == 1      \* stdout lines one child process prints
EvObjs     == 1      \* create_task calls in a run of SpecEvents
EvThreads  == 1      \* supervisor threads launched in a run of SpecEvents
MaxSubs    == 2      \* subscribe_task messages in a run of SpecEvents
MaxAge     == 1      \* largest max_age clean_completed_tasks is called with, in ticks
MaxParseLines == 2   \* stdout lines of an output that SpecParse parses
MaxTokens  == 3      \* length of such a line, in tokens
MaxReads   == 2      \* requests the reader makes in a run of SpecReader
MaxCancels == 2      \* cancel_task calls in a run of SpecRace
MaxRunLines == 2     \* stdout lines one child process prints in a run of SpecThrottle
MaxRunTime == 2      \* last value of the clock in a run of SpecThrottle
MaxMonitors == 3     \* monitor threads started in a run of SpecMonitor
MaxDeskThreads == 2  \* transcription threads started in a run of SpecDesk

(* --------------------------- input domains ---------------------------- *)
\* ids as Transcriber.create_transcription_task makes them, str(int(time.time())),
\* in the order in which the clock brings them up
IdSeq   == <<"1700000001", "1700000002", "1700000003">>
TaskIds == {IdSeq[i] : i \in 1..Len(IdSeq)}
Paths   == {"a.wav"}
\* start-of-segment seconds of the timestamped lines a child may print
StartSecs == {97}
\* socket.io session ids (request.sid) of the connected clients
Clients == {"sid1"}
\* a stdout line: a timestamped segment line (sec >= 0), any other text (-1),
\* or bytes that are not utf-8 (-2)
Lines == StartSecs \cup {-1, -2}

(* --------------------------- TaskStatus ------------------------------- *)
PENDING   == "pending"
RUNNING   == "running"
COMPLETED == "completed"
CANCELLED == "cancelled"
ERROR     == "error"
TaskStatus == {PENDING, RUNNING, COMPLETED, CANCELLED, ERROR}

\* the statuses a task ends in
Terminal(status) == status \in {COMPLETED, CANCELLED, ERROR}

None == "None"

\* TaskManager(max_tasks=...): the registry's capacity
max_tasks == 2
\* run_whisper_process: "if current_time - last_progress_time >= 0.5";
\* one tick of the clock is 0.5 s
ThrottleTicks == 1
\* run_whisper_process: "min(int((current_time / 100.0) * 100), 95)"
ProgressCap == 95

Min(a, b) == IF a <= b THEN a ELSE b

VARIABLES
    tasks,   \* TaskManager.tasks: sequence of [id, obj] in insertion order
    heap,    \* the TranscriptionTask objects
    nobj,    \* number of TranscriptionTask objects constructed
    thr,     \* the supervisor threads (_run_transcription activations)
    nthr,    \* number of supervisor threads launched
    now,     \* time.time()
    events,  \* what socketio.emit has sent so far, in order
    mon,     \* where the thread of _monitor_all_tasks is
    lock,    \* TaskManager.lock, a threading.Lock: "free" or "held"
    ended_at, \* history: when each task object reached its terminal status, or -1
    parse,   \* run_whisper_process at work on an output: the input's audio_length,
             \* the stdout_lines, and what it has made of them so far
    reader,  \* a request handler of routes.py at work on a task it got by get_task
    canceller, \* a cancel_task call at work on a task, statement by statement
    stderr_thread, \* the read_stderr thread of each supervisor: "none", "reading" or "finished"
    ns, \* the WebWhisperNamespace: its clients, its monitor threads and their flag
    desk, \* the desktop application SoftWhisper: its buttons, its stop event and its transcription threads
    sub \* the on_subscribe_task call under way: its position, its caller, the task object it got

\* the socket layer
aux  == <<events, mon, ended_at, parse, reader, canceller, stderr_thread, ns, desk, sub>>
vars == <<tasks, heap, nobj, thr, nthr, now, events, mon, lock, ended_at, parse, reader, canceller, stderr_thread, ns, desk, sub>>

Objs    == 1..MaxObjs
Threads == 1..MaxThreads

(* ---------------------- TranscriptionTask ----------------------------- *)
Msg(kind, arg) == [kind |-> kind, arg |-> arg]

\* TranscriptionTask.__init__
NewTask(task_id, file_path, t) ==
    [ task_id      |-> task_id,
      file_path    |-> file_path,
      status       |-> PENDING,
      progress     |-> 0,
      message      |-> Msg("waiting", ""),
      result       |-> None,
      error        |-> None,
      created_at   |-> t,
      updated_at   |-> t,
      progress_queue |-> << >>,
      stop_event   |-> FALSE ]

\* a heap slot no constructor has filled yet
NoTask == NewTask("", "", 0)

\* an update_progress that puts the task back to Running
update_progress_running(task, progress, message, t) ==
    [task EXCEPT !.status = RUNNING,
                 !.progress = progress,
                 !.message  = message,
                 !.updated_at = t,
                 !.progress_queue = Append(@, [progress |-> progress, message |-> message])]

\* TranscriptionTask.update_progress (every caller passes a message)
update_progress(task, progress, message, t) ==
    [task EXCEPT !.progress = progress,
                 !.message  = message,
                 !.updated_at = t,
                 !.progress_queue = Append(@, [progress |-> progress, message |-> message])]

\* TranscriptionTask.cancel
cancel(task, t) ==
    [task EXCEPT !.status = CANCELLED,
                 !.stop_event = TRUE,
                 !.message = Msg("task_cancelled", ""),
                 !.updated_at = t]

\* TranscriptionTask.complete
complete(task, result, t) ==
    [task EXCEPT !.status = COMPLETED,
                 !.result = result,
                 !.progress = 100,
                 !.message = Msg("task_completed", ""),
                 !.updated_at = t]

\* TranscriptionTask.fail
fail(task, error, t) ==
    [task EXCEPT !.status = ERROR,
                 !.error = error,
                 !.message = Msg("task_failed", error),
                 !.updated_at = t]

\* TranscriptionTask.start
start(task, t) ==
    [task EXCEPT !.status = RUNNING,
                 !.message = Msg("task_running", ""),
                 !.updated_at = t]

(* --------------------------- the registry ----------------------------- *)
Ids(reg) == {reg[i].id : i \in 1..Len(reg)}

\* "task_id in self.tasks"
Has(reg, id) == id \in Ids(reg)

\* self.tasks[task_id]  (only where Has(reg, id))
Lookup(reg, id) == (CHOOSE i \in 1..Len(reg) : reg[i].id = id)

Obj(reg, id) == reg[Lookup(reg, id)].obj

\* self.tasks[task_id] = task: a stored key keeps its place in the OrderedDict
Put(reg, id, o) ==
    IF Has(reg, id)
    THEN [reg EXCEPT ![Lookup(reg, id)].obj = o]
    ELSE Append(reg, [id |-> id, obj |-> o])

\* the entries of reg at the positions in keep, in their order
RECURSIVE Filter(_, _, _)
Filter(reg, keep, i) ==
    IF i > Len(reg) THEN << >>
    ELSE IF i \in keep THEN <<reg[i]>> \o Filter(reg, keep, i + 1)
         ELSE Filter(reg, keep, i + 1)

\* position of entry i in sorted(self.tasks.items(), key=created_at): the sort
\* is stable, so equal created_at keep the dictionary's order
SortRank(reg, h, i) ==
    Cardinality({j \in 1..Len(reg) :
        \/ h[reg[j].obj].created_at < h[reg[i].obj].created_at
        \/ /\ h[reg[j].obj].created_at = h[reg[i].obj].created_at
           /\ j < i})

\* TaskManager._clean_old_tasks
clean_old_tasks(reg, h) ==
    IF Len(reg) <= max_tasks THEN reg
    ELSE Filter(reg, {i \in 1..Len(reg) : SortRank(reg, h, i) >= Len(reg) - max_tasks}, 1)

\* TaskManager.get_task: the stored object, or 0 for None
get_task(id) == IF Has(tasks, id) THEN Obj(tasks, id) ELSE 0

(* --------------------------- the threads ------------------------------ *)
NoThread ==
    [ pc |-> "unborn", task_id |-> "", task |-> 0,
      proc |-> "none", returncode |-> "None", cancelled |-> FALSE,
      result |-> None, last_progress_time |-> 0, nlines |-> 0 ]

\* no output is being parsed
NoParse == [audio_length |-> 0, stdout_lines |-> << >>, read |-> FALSE, progress |-> << >>,
            returned |-> FALSE, segments |-> << >>,
            desktop_read |-> FALSE, desktop_progress |-> << >>]

\* no request is being handled; n counts the requests made
NoReader == [pc |-> "idle", kind |-> "", task |-> 0, status |-> None, result |-> None,
             progress |-> -1, n |-> 0]

\* socket.io session ids of the clients that connect and disconnect
Sids == {"sid1", "sid2"}
Monitors == 1..MaxMonitors

\* the WebWhisperNamespace after __init__ and init_app: no clients, and the
\* first monitor thread started (thread 0 is None)
NewNamespace ==
    [ clients             |-> {},
      task_monitor_thread |-> 1,
      stop_monitoring     |-> FALSE,
      threads             |-> [m \in Monitors |-> IF m = 1 THEN "while" ELSE "unborn"] ]

DeskThreads == 1..MaxDeskThreads

\* a transcription thread of the desktop application that was not started yet;
\* stopped records that stop_processing was called while the thread was at work
NoDeskThread == [pc |-> "unborn", proc |-> "none", stopped |-> FALSE]

\* SoftWhisper after __init__, with a file selected and the model loaded: the
\* start button is enabled, the stop button is not, no transcription thread
NewDesk ==
    [ start_button |-> "normal",
      stop_button  |-> "disabled",
      transcription_stop_event |-> FALSE,
      after   |-> 0,
      threads |-> [t \in DeskThreads |-> NoDeskThread] ]

\* no on_subscribe_task call is under way; seen are the statuses the task had
\* from the moment get_task returned it to the end of the call, n counts the
\* calls made
NoSub == [pc |-> "idle", sid |-> "", task_id |-> "", task |-> 0, seen |-> {}, n |-> 0]

\* no cancel_task call is under way; n counts the calls made
NoCanceller == [pc |-> "idle", task |-> 0, n |-> 0]

Init ==
    /\ parse = NoParse
    /\ reader = NoReader
    /\ canceller = NoCanceller
    /\ stderr_thread = [t \in Threads |-> "none"]
    /\ ns = NewNamespace
    /\ desk = NewDesk
    /\ sub = NoSub
    /\ tasks = << >>
    /\ heap = [o \in Objs |-> NoTask]
    /\ nobj = 0
    /\ thr = [t \in Threads |-> NoThread]
    /\ nthr = 0
    /\ now = 0
    /\ events = << >>
    /\ mon = "poll"
    /\ lock = "free"
    /\ ended_at = [o \in Objs |-> -1]

(* ------------------------- TaskManager API ---------------------------- *)
\* "with self.lock:" is left, at its end or (early) by a return or an exception
\* inside it: the lock is released either way
with_lock(early) == "free"

\* the ids create_task has been called with so far; a call comes with one of
\* them again (two calls within the same second) or with the next one
UsedIds == {heap[o].task_id : o \in 1..nobj}
NextId  == IF Cardinality(UsedIds) < Len(IdSeq) THEN {IdSeq[Cardinality(UsedIds) + 1]} ELSE {}

\* TaskManager.create_task.  exists is what os.path.exists(file_path) answers:
\* uploads and deletions (FileManager.save_uploaded_file, delete_file) may
\* change it between any two looks at the file system
CreateTask(id, path, exists) ==
    /\ lock = "free"
    /\ lock' = with_lock(~exists)
    /\ nobj < MaxObjs
    /\ id \in UsedIds \cup NextId
    /\ LET o == nobj + 1
           task == NewTask(id, path, now)
       IN /\ nobj' = o
          /\ IF ~exists
             THEN /\ heap' = [heap EXCEPT ![o] = fail(task, "file_missing", now)]
                  /\ tasks' = Put(tasks, id, o)
             ELSE /\ heap' = [heap EXCEPT ![o] = task]
                  /\ tasks' = clean_old_tasks(Put(tasks, id, o), heap')
    /\ UNCHANGED <<thr, nthr, now>>

\* start_task: "if task.status in [TaskStatus.RUNNING, TaskStatus.COMPLETED]"
StartRefused(status) == status \in {RUNNING, COMPLETED}

\* what TaskManager.start_task(id) returns, called in the current state
start_task(id) == Has(tasks, id) /\ ~StartRefused(heap[Obj(tasks, id)].status)

\* TaskManager.start_task: the check and the flip under the lock, then the
\* thread that runs _run_transcription(task_id)
StartTask(id) ==
    /\ lock = "free"
    /\ lock' = with_lock(~start_task(id))
    /\ IF ~start_task(id)
       THEN UNCHANGED <<heap, thr, nthr>>
       ELSE /\ nthr < MaxThreads
            /\ heap' = [heap EXCEPT ![Obj(tasks, id)] = start(@, now)]
            /\ nthr' = nthr + 1
            /\ thr' = [thr EXCEPT ![nthr + 1] = [NoThread EXCEPT !.pc = "begin", !.task_id = id]]
    /\ UNCHANGED <<tasks, nobj, now>>

\* a cancel_task that lets a task be cancelled before it was started
CancelRefusedPendingToo(status) == status \notin {RUNNING, PENDING}

\* a cancel_task that refuses only what has finished or failed
CancelRefusedFinishedOnly(status) == status \in {COMPLETED, ERROR}

\* cancel_task: "if task.status != TaskStatus.RUNNING: return False"
CancelRefused(status) == status # RUNNING

\* what TaskManager.cancel_task(id) returns, called in the current state
cancel_task(id) == Has(tasks, id) /\ ~CancelRefused(heap[Obj(tasks, id)].status)

\* the task objects after TaskManager.cancel_task(id), called at time t when
\* the task objects are h
CancelOn(h, id, t) ==
    IF Has(tasks, id) /\ ~CancelRefused(h[Obj(tasks, id)].status)
    THEN [h EXCEPT ![Obj(tasks, id)] = cancel(@, t)]
    ELSE h

\* TaskManager.cancel_task
CancelTask(id) ==
    /\ lock = "free"
    /\ lock' = with_lock(TRUE)
    /\ heap' = CancelOn(heap, id, now)
    /\ UNCHANGED <<tasks, nobj, thr, nthr, now>>

\* clean_completed_tasks, "to_delete": the places in the registry of the tasks
\* that have ended and were last updated more than max_age before t
to_delete(reg, h, t, max_age) ==
    {i \in 1..Len(reg) :
        /\ Terminal(h[reg[i].obj].status)
        /\ h[reg[i].obj].updated_at < t - max_age}

\* what TaskManager.clean_completed_tasks returns, called in the current state
clean_completed_tasks(max_age) == Cardinality(to_delete(tasks, heap, now, max_age))

\* TaskManager.clean_completed_tasks, with max_age_hours * 3600 = max_age ticks
CleanCompleted(max_age) ==
    /\ lock = "free"
    /\ lock' = with_lock(TRUE)
    /\ tasks' = Filter(tasks, (1..Len(tasks)) \ to_delete(tasks, heap, now, max_age), 1)
    /\ UNCHANGED <<heap, nobj, thr, nthr, now>>

(* ------------------- the supervisor: _run_transcription --------------- *)
\* progress_callback(progress, message): task.update_progress on the object the
\* thread looked up in its first step
Callback(t, progress, message) ==
    [heap EXCEPT ![thr[t].task] = update_progress(@, progress, message, now)]

Goto(t, pc) == [thr EXCEPT ![t].pc = pc]

\* _run_transcription returns and the thread ends; the task it served and the
\* result it got stay on record
Exit(t) == [thr EXCEPT ![t] = [NoThread EXCEPT !.pc = "done", !.task = thr[t].task,
                                               !.result = thr[t].result]]

\* the thread leaves the read loop: last_progress_time and the line count are
\* not read again
LeaveLoop(th) == [th EXCEPT !.pc = "drain", !.last_progress_time = 0, !.nlines = 0]

\* the child process of a thread is alive ("process.poll() is None"): it runs,
\* with its stdout open ("running") or closed ("mute")
Alive(proc) == proc \in {"running", "mute"}

\* a run_whisper_process that leaves its child process alone on the way out
terminate_kill_skipped(proc) == proc

\* run_whisper_process, "except" and "finally": "if process and process.poll()
\* is None: process.terminate(); time.sleep(0.1); if process.poll() is None:
\* process.kill()"
terminate_kill(proc) == IF Alive(proc) THEN "killed" ELSE proc

\* run_whisper_process returns r, through its "finally": its locals are gone
Return(th, r) ==
    [th EXCEPT !.pc = "record", !.result = r, !.returncode = "None", !.cancelled = FALSE,
               !.last_progress_time = 0, !.nlines = 0, !.proc = terminate_kill(@)]

\* _run_transcription, first "with self.lock": look the task up
SupBegin(t) ==
    /\ thr[t].pc = "begin"
    /\ lock = "free"
    /\ lock' = with_lock(~Has(tasks, thr[t].task_id))
    /\ IF ~Has(tasks, thr[t].task_id)
       THEN thr' = Exit(t)
       ELSE thr' = [thr EXCEPT ![t].pc = "transcribe", ![t].task = Obj(tasks, thr[t].task_id)]
    /\ UNCHANGED <<tasks, heap, nobj, nthr, now>>

\* transcribe_audio up to the spawn in run_whisper_process.  how is what the
\* environment lets happen:
\*   "transcribe_exc"  convert_audio_to_wav or build_whisper_command raises
\*                     (as when the input file does not exist by now)
\*   "model_missing"   the model file does not exist
\*   "process_exc"     subprocess.Popen raises
\*   "spawned"         the child process runs
SupTranscribe(t, how) ==
    /\ thr[t].pc = "transcribe"
    /\ CASE how = "transcribe_exc" ->
              /\ thr' = [thr EXCEPT ![t] = Return(@, "transcribe_exc")]
              /\ heap' = heap
         [] how = "model_missing" ->
              /\ thr' = [thr EXCEPT ![t] = Return(@, "model_missing")]
              /\ heap' = Callback(t, 0, Msg("model_missing", ""))
         [] how = "process_exc" ->
              /\ thr' = [thr EXCEPT ![t] = Return(@, "process_exc")]
              /\ heap' = heap
         [] how = "spawned" ->
              /\ thr' = [thr EXCEPT ![t].pc = "loop", ![t].proc = "running",
                                    ![t].last_progress_time = now]
              /\ heap' = heap
    /\ UNCHANGED <<tasks, nobj, nthr, now, lock>>

\* run_whisper_process: "while process.poll() is None:" and the stop_event check.
\* killed is whether the psutil block gets as far as parent.kill(), which stops
\* the child: it does not when psutil.Process, parent.children or a
\* child.kill() raises first (a descendant that is gone by now, a descendant
\* of another user); both "except" clauses go on to "cancelled = True; break".
SupLoop(t, killed) ==
    /\ thr[t].pc = "loop"
    /\ IF ~Alive(thr[t].proc)
       THEN /\ killed
            /\ thr' = [thr EXCEPT ![t] = LeaveLoop(
                          [@ EXCEPT !.returncode = IF thr[t].proc = "exit0" THEN "0" ELSE "1"])]
       ELSE IF heap[thr[t].task].stop_event
       THEN thr' = [thr EXCEPT ![t] = LeaveLoop(
                          [@ EXCEPT !.cancelled = TRUE,
                                    !.proc = IF killed THEN "killed" ELSE @])]
       ELSE /\ killed
            /\ thr' = Goto(t, "read")
    /\ UNCHANGED <<tasks, heap, nobj, nthr, now, lock>>

\* the progress of a stdout line: None (-1) unless it carries a timestamp
LineProgress(line) == IF line < 0 THEN -1 ELSE Min(line, ProgressCap)

\* a read loop that reports every timestamped line
MayEmitAlways(last_progress_time, t) == TRUE

\* run_whisper_process: "if current_time - last_progress_time >= 0.5"
MayEmit(last_progress_time, t) == t - last_progress_time >= ThrottleTicks

\* run_whisper_process: "line = process.stdout.readline()" and what follows,
\* for a child that prints up to max_lines lines.
\* readline returns a line the child printed, or '' once the child has exited
\* or closed its stdout; on bytes that are not utf-8 it raises and "except
\* Exception" ends the run.
SupReadLine(t, line, max_lines) ==
    /\ thr[t].pc = "read"
    /\ IF thr[t].proc = "running"
       THEN /\ thr[t].nlines < max_lines
            /\ IF line = -2
               THEN /\ heap' = heap
                    /\ thr' = [thr EXCEPT ![t] = Return(@, "process_exc")]
               ELSE IF LineProgress(line) >= 0 /\ MayEmit(thr[t].last_progress_time, now)
               THEN /\ heap' = Callback(t, LineProgress(line),
                                        Msg("transcribing", ToString(LineProgress(line))))
                    /\ thr' = [thr EXCEPT ![t].pc = "loop", ![t].nlines = @ + 1,
                                          ![t].last_progress_time = now]
               ELSE /\ heap' = heap
                    /\ thr' = [thr EXCEPT ![t].pc = "loop", ![t].nlines = @ + 1]
       ELSE /\ line = -1
            /\ heap' = heap
            /\ thr' = Goto(t, "loop")
    /\ UNCHANGED <<tasks, nobj, nthr, now, lock>>

\* the read of a line from a child that prints up to MaxLines lines
SupRead(t, line) == SupReadLine(t, line, MaxLines)

\* run_whisper_process: "exit_code = process.returncode; if exit_code != 0:"
ExitCodeCheck(t) ==
    IF thr[t].returncode # "0"
    THEN /\ heap' = Callback(t, 0, Msg("exit_failed", thr[t].returncode))
         /\ thr' = [thr EXCEPT ![t] = Return(@, "exit_failed")]
    ELSE /\ heap' = heap
         /\ thr' = Goto(t, "check")

\* run_whisper_process after the loop: the rest of stdout is read to its end,
\* the stderr thread is joined, then "exit_code = process.returncode; if
\* exit_code != 0:"
SupDrain(t) ==
    /\ thr[t].pc = "drain"
    /\ thr[t].proc # "running"
    /\ ExitCodeCheck(t)
    /\ UNCHANGED <<tasks, nobj, nthr, now, lock>>

(* ------------- run_whisper_process and its read_stderr thread --------- *)
\* transcribe_audio up to the spawn, with the thread the spawn starts:
\* "stderr_thread = threading.Thread(target=read_stderr, daemon=True);
\* stderr_thread.start()"
SupSpawn(t, how) ==
    /\ SupTranscribe(t, how)
    /\ stderr_thread' = [stderr_thread EXCEPT ![t] = IF how = "spawned" THEN "reading" ELSE @]
    /\ UNCHANGED <<events, mon, ended_at, parse, reader, canceller, ns, desk, sub>>

\* read_stderr returns: readline has come to the end of stderr, or the stop
\* event was up after a line.  When the end comes is up to the child and to
\* whoever else holds its stderr open.
ReadStderrEnd(t) ==
    /\ stderr_thread[t] = "reading"
    /\ stderr_thread' = [stderr_thread EXCEPT ![t] = "finished"]
    /\ UNCHANGED <<tasks, heap, nobj, thr, nthr, now, events, mon, lock, ended_at, parse, reader, canceller, ns, desk, sub>>

\* "stderr_thread.join(timeout=1.0)"
JoinTimeout == TRUE

\* a join that waits for the thread however long it takes
JoinedWithoutTimeout(thread, timeout) == thread = "finished"

\* Thread.join(timeout) returns: the thread has ended, or there is a timeout
\* and it is over
Joined(thread, timeout) == thread = "finished" \/ timeout

\* run_whisper_process after the loop, "# process the rest of stdout": the rest
\* of stdout is read to its end
SupDrainOut(t) ==
    /\ thr[t].pc = "drain"
    /\ thr[t].proc # "running"
    /\ thr' = Goto(t, "join")
    /\ UNCHANGED <<tasks, heap, nobj, nthr, now, lock>>

\* run_whisper_process: "stderr_thread.join(timeout=1.0)" returns, and the exit
\* code is looked at; a read_stderr thread still at work is left to itself
SupJoin(t) ==
    /\ thr[t].pc = "join"
    /\ Joined(stderr_thread[t], JoinTimeout)
    /\ ExitCodeCheck(t)
    /\ UNCHANGED <<tasks, nobj, nthr, now, lock>>

\* run_whisper_process: "if cancelled or (stop_event and stop_event.is_set()):"
SupCheck(t) ==
    /\ thr[t].pc = "check"
    /\ IF thr[t].cancelled \/ heap[thr[t].task].stop_event
       THEN /\ heap' = Callback(t, 0, Msg("transcribe_cancelled", ""))
            /\ thr' = [thr EXCEPT ![t] = Return(@, "cancelled")]
       ELSE /\ heap' = Callback(t, 90, Msg("processing_result", ""))
            /\ thr' = Goto(t, "parse")
    /\ UNCHANGED <<tasks, nobj, nthr, now, lock>>

\* run_whisper_process: the segments are parsed, progress_callback(100, ...)
SupParse(t) ==
    /\ thr[t].pc = "parse"
    /\ heap' = Callback(t, 100, Msg("transcribe_done", ""))
    /\ thr' = [thr EXCEPT ![t] = Return(@, "ok")]
    /\ UNCHANGED <<tasks, nobj, nthr, now, lock>>

\* a supervisor that takes only a cancelled run for one that did not succeed
ResultCancelledOnlyStopped(result) == result = "cancelled"

\* result.get('cancelled', False): every result but the one of a successful run
\* carries 'cancelled': True.  The results are named by what they report:
\*   "ok"              text and segments of the output
\*   "exit_failed"     "process exit code N" and the captured stderr text
\*   "cancelled"       "cancelled by the user"
\*   "process_exc", "transcribe_exc", "model_missing"   the text of the error
ResultCancelled(result) == result # "ok"

\* a supervisor that looks at the result before it looks at the stop event
OutcomeResultFirst(task, result, t) ==
    IF ~ResultCancelled(result) THEN complete(task, result, t)
    ELSE IF task.stop_event THEN [task EXCEPT !.status = CANCELLED]
    ELSE fail(task, result, t)

\* _run_transcription, "# process the result": what the supervisor records on
\* the task stored under its id
Outcome(task, result, t) ==
    IF task.stop_event THEN [task EXCEPT !.status = CANCELLED]
    ELSE IF ResultCancelled(result) THEN fail(task, result, t)
    ELSE complete(task, result, t)

\* _run_transcription, second "with self.lock"
SupRecord(t) ==
    /\ thr[t].pc = "record"
    /\ lock = "free"
    /\ lock' = with_lock(~Has(tasks, thr[t].task_id))
    /\ thr' = Exit(t)
    /\ IF ~Has(tasks, thr[t].task_id)
       THEN heap' = heap
       ELSE heap' = [heap EXCEPT ![Obj(tasks, thr[t].task_id)] = Outcome(@, thr[t].result, now)]
    /\ UNCHANGED <<tasks, nobj, nthr, now>>

(* ------ the record of a result as a reader without the lock sees it ---- *)
\* TranscriptionTask.complete, one statement after the other: the fields in the
\* order in which complete assigns them
CompleteFields == <<"status", "result", "progress", "message", "updated_at">>

\* the statement of complete that assigns the field
complete_statement(task, field, result, t) ==
    CASE field = "status"     -> [task EXCEPT !.status = COMPLETED]
      [] field = "result"     -> [task EXCEPT !.result = result]
      [] field = "progress"   -> [task EXCEPT !.progress = 100]
      [] field = "message"    -> [task EXCEPT !.message = Msg("task_completed", "")]
      [] field = "updated_at" -> [task EXCEPT !.updated_at = t]

\* the place of a field in CompleteFields
FieldAt(field) == CHOOSE k \in 1..Len(CompleteFields) : CompleteFields[k] = field

\* _run_transcription, second "with self.lock", up to the first statement of
\* task.complete: the lock is taken and stays held while complete runs.  The
\* other outcomes are recorded as in SupRecord.
SupRecordEnter(t) ==
    /\ thr[t].pc = "record"
    /\ lock = "free"
    /\ IF ~Has(tasks, thr[t].task_id)
       THEN /\ heap' = heap
            /\ thr' = Exit(t)
            /\ lock' = with_lock(TRUE)
       ELSE IF heap[Obj(tasks, thr[t].task_id)].stop_event \/ ResultCancelled(thr[t].result)
       THEN /\ heap' = [heap EXCEPT ![Obj(tasks, thr[t].task_id)] = Outcome(@, thr[t].result, now)]
            /\ thr' = Exit(t)
            /\ lock' = with_lock(FALSE)
       ELSE /\ heap' = [heap EXCEPT ![Obj(tasks, thr[t].task_id)] =
                            complete_statement(@, CompleteFields[1], thr[t].result, now)]
            /\ thr' = Goto(t, CompleteFields[2])
            /\ lock' = "held"
    /\ UNCHANGED <<tasks, nobj, nthr, now>>

\* task.complete, its next statement; after the last one the "with" is left
SupComplete(t) ==
    /\ thr[t].pc \in {CompleteFields[k] : k \in 2..Len(CompleteFields)}
    /\ lock = "held"
    /\ heap' = [heap EXCEPT ![Obj(tasks, thr[t].task_id)] =
                    complete_statement(@, thr[t].pc, thr[t].result, now)]
    /\ IF FieldAt(thr[t].pc) < Len(CompleteFields)
       THEN /\ thr' = Goto(t, CompleteFields[FieldAt(thr[t].pc) + 1])
            /\ lock' = lock
       ELSE /\ thr' = Exit(t)
            /\ lock' = with_lock(FALSE)
    /\ UNCHANGED <<tasks, nobj, nthr, now>>

(* ---------- cancel_task as the supervisor, without the lock, sees it --- *)
\* TranscriptionTask.cancel, one statement after the other: the fields in the
\* order in which cancel assigns them
CancelFields == <<"status", "stop_event", "message", "updated_at">>

\* the statement of cancel that assigns the field
cancel_statement(task, field, t) ==
    CASE field = "status"     -> [task EXCEPT !.status = CANCELLED]
      [] field = "stop_event" -> [task EXCEPT !.stop_event = TRUE]
      [] field = "message"    -> [task EXCEPT !.message = Msg("task_cancelled", "")]
      [] field = "updated_at" -> [task EXCEPT !.updated_at = t]

\* the place of a field in CancelFields
CancelFieldAt(field) == CHOOSE k \in 1..Len(CancelFields) : CancelFields[k] = field

\* TaskManager.cancel_task up to the first statement of task.cancel(): the lock
\* is taken and stays held while cancel runs; a call that is refused returns
\* and leaves the lock
CancelEnter(id) ==
    /\ canceller.pc = "idle"
    /\ canceller.n < MaxCancels
    /\ lock = "free"
    /\ IF ~cancel_task(id)
       THEN /\ heap' = heap
            /\ canceller' = [NoCanceller EXCEPT !.n = canceller.n + 1]
            /\ lock' = with_lock(TRUE)
       ELSE /\ heap' = [heap EXCEPT ![Obj(tasks, id)] = cancel_statement(@, CancelFields[1], now)]
            /\ canceller' = [pc |-> CancelFields[2], task |-> Obj(tasks, id),
                             n |-> canceller.n + 1]
            /\ lock' = "held"
    /\ UNCHANGED <<tasks, nobj, thr, nthr, now, events, mon, ended_at, parse, reader, stderr_thread, ns, desk, sub>>

\* task.cancel(), its next statement; after the last one the "with" is left
CancelStatement ==
    /\ canceller.pc # "idle"
    /\ lock = "held"
    /\ heap' = [heap EXCEPT ![canceller.task] = cancel_statement(@, canceller.pc, now)]
    /\ IF CancelFieldAt(canceller.pc) < Len(CancelFields)
       THEN /\ canceller' = [canceller EXCEPT !.pc = CancelFields[CancelFieldAt(canceller.pc) + 1]]
            /\ lock' = lock
       ELSE /\ canceller' = [canceller EXCEPT !.pc = "idle", !.task = 0]
            /\ lock' = with_lock(FALSE)
    /\ UNCHANGED <<tasks, nobj, thr, nthr, now, events, mon, ended_at, parse, reader, stderr_thread, ns, desk, sub>>

(* ----------------------- the readers: routes.py ----------------------- *)
\* get_subtitles ("subtitles") and check_task_status ("status"), up to
\* "task = task_manager.get_task(task_id)": the one moment the handler holds the
\* lock.  Without a task it answers 404.
ReaderGet(kind, id) ==
    /\ reader.pc = "idle"
    /\ reader.n < MaxReads
    /\ lock = "free"
    /\ IF get_task(id) = 0
       THEN reader' = [NoReader EXCEPT !.n = reader.n + 1]
       ELSE reader' = [NoReader EXCEPT !.pc = "status", !.kind = kind, !.task = get_task(id),
                                       !.n = reader.n + 1]
    /\ UNCHANGED <<tasks, heap, nobj, thr, nthr, now, events, mon, lock, ended_at, parse, canceller, stderr_thread, ns, desk, sub>>

\* the handler reads task.status; get_subtitles answers 400 unless it is
\* COMPLETED
ReaderStatus ==
    /\ reader.pc = "status"
    /\ reader' = [reader EXCEPT
          !.status = heap[reader.task].status,
          !.pc = IF reader.kind = "subtitles" /\ heap[reader.task].status # COMPLETED
                 THEN "idle" ELSE "field"]
    /\ UNCHANGED <<tasks, heap, nobj, thr, nthr, now, events, mon, lock, ended_at, parse, canceller, stderr_thread, ns, desk, sub>>

\* the handler reads the next field: get_subtitles "result = task.result",
\* check_task_status "'progress': task.progress", and answers
ReaderField ==
    /\ reader.pc = "field"
    /\ IF reader.kind = "subtitles"
       THEN reader' = [reader EXCEPT !.result = heap[reader.task].result, !.pc = "idle"]
       ELSE reader' = [reader EXCEPT !.progress = heap[reader.task].progress, !.pc = "idle"]
    /\ UNCHANGED <<tasks, heap, nobj, thr, nthr, now, events, mon, lock, ended_at, parse, canceller, stderr_thread, ns, desk, sub>>

(* ------------- run_whisper_process: the segments of an output -------- *)
\* An output line is a sequence of tokens: a character (" ", "a") or a whole
\* timestamp bracket, "[HH:MM:SS.mmm --> HH:MM:SS.mmm]":
\*   "T1" is "[00:00:01.000 --> 00:00:02.500]"
\*   "T2" is "[01:02:03.004 --> 01:02:03.999]"
\* Seconds are counted in milliseconds, 2.5 s is 2500.
Stamps == {"T1", "T2"}
Tokens == Stamps \cup {" ", "a"}
White  == {" ", "\n"}

\* match.group(1), match.group(2) split at ':' and '.': <<h, m, s, ms>>
StartOf(token) == IF token = "T1" THEN <<0, 0, 1, 0>> ELSE <<1, 2, 3, 4>>
EndOf(token)   == IF token = "T1" THEN <<0, 0, 2, 500>> ELSE <<1, 2, 3, 999>>

\* a conversion that leaves the hours out
to_seconds_without_hours(ts) == (ts[2] * 60 + ts[3]) * 1000 + ts[4]

\* "int(h1)*3600 + int(m1)*60 + int(s1) + float(ms1)/1000"
to_seconds(ts) == (ts[1] * 3600 + ts[2] * 60 + ts[3]) * 1000 + ts[4]

\* str.strip()
RECURSIVE lstrip(_)
lstrip(text) ==
    IF text = << >> THEN text
    ELSE IF Head(text) \in White THEN lstrip(Tail(text)) ELSE text

RECURSIVE rstrip(_)
rstrip(text) ==
    IF text = << >> THEN text
    ELSE IF text[Len(text)] \in White THEN rstrip(SubSeq(text, 1, Len(text) - 1)) ELSE text

strip(text) == rstrip(lstrip(text))

\* "".join(stdout_lines): readline gives each line with its newline
RECURSIVE join(_)
join(lines) ==
    IF lines = << >> THEN << >> ELSE Head(lines) \o <<"\n">> \o join(Tail(lines))

\* text.split('\n')
RECURSIVE split(_)
split(text) ==
    IF \A i \in 1..Len(text) : text[i] # "\n" THEN <<text>>
    ELSE LET i == CHOOSE k \in 1..Len(text) :
                     text[k] = "\n" /\ \A j \in 1..(k - 1) : text[j] # "\n"
         IN <<SubSeq(text, 1, i - 1)>> \o split(SubSeq(text, i + 1, Len(text)))

\* re.search(timestamp_pattern, line): where the leftmost bracket that a space
\* follows stands in the line, 0 if there is none
search(line) ==
    LET hits == {i \in 1..(Len(line) - 1) : line[i] \in Stamps /\ line[i + 1] = " "}
    IN IF hits = {} THEN 0 ELSE CHOOSE i \in hits : \A j \in hits : i <= j

\* seg_data of a line that matches at i; match.group(3) is the rest of the line
seg_data(line, i) ==
    [start |-> to_seconds(StartOf(line[i])),
     end   |-> to_seconds(EndOf(line[i])),
     text  |-> strip(SubSeq(line, i + 2, Len(line)))]

\* "for line in output_text.split('\n'):" with its "segments.append(seg_data)"
RECURSIVE parse_lines(_)
parse_lines(lines) ==
    IF lines = << >> THEN << >>
    ELSE LET line == strip(Head(lines))
             i == search(line)
         IN (IF i > 0 THEN <<seg_data(line, i)>> ELSE << >>) \o parse_lines(Tail(lines))

\* the 'segments' of the result run_whisper_process returns for stdout_lines
segments(stdout_lines) ==
    LET output_text == strip(join(stdout_lines))
        segs == parse_lines(split(output_text))
    IN IF segs = << >>
       THEN <<[start |-> 0, end |-> 100000, text |-> output_text]>>
       ELSE segs

\* match_for_progress: re.search of the bracket alone, with no text asked for
\* after it, in line.strip(): where the leftmost bracket stands, 0 if none
search_for_progress(line) ==
    LET hits == {i \in 1..Len(line) : line[i] \in Stamps}
    IN IF hits = {} THEN 0 ELSE CHOOSE i \in hits : \A j \in hits : i <= j

\* "progress = min(int((current_time / 100.0) * 100), 95)", current_time in
\* milliseconds: the seconds of the start, cut to an integer, at most 95
progress_of(current_time) == Min((current_time * 100) \div (100 * 1000), ProgressCap)

\* the progress the read loop derives from one stdout line, -1 where it
\* derives none
line_progress(line) ==
    LET i == search_for_progress(strip(line))
    IN IF i = 0 THEN -1 ELSE progress_of(to_seconds(StartOf(strip(line)[i])))

\* SoftWhisper.py, transcribe_audio: "progress = int((current_time /
\* audio_length) * 100)", both in milliseconds
desktop_progress_of(current_time, audio_length) == (current_time * 100) \div audio_length

\* the progress the read loop of SoftWhisper.py derives from one stdout line,
\* -1 where it derives none
desktop_line_progress(line, audio_length) ==
    LET i == search_for_progress(strip(line))
    IN IF i = 0 THEN -1
       ELSE desktop_progress_of(to_seconds(StartOf(strip(line)[i])), audio_length)

\* the outputs SpecParse parses
TokenLines == UNION {[1..n -> Tokens] : n \in 0..MaxTokens}
Outputs    == UNION {[1..n -> TokenLines] : n \in 0..MaxParseLines}
\* the durations of the input audio, in milliseconds: 4 s and 10 s
AudioLengths == {4000, 10000}

\* run_whisper_process has spawned the child on an input of some duration; the
\* child is to print some output and exit with code 0
InitParse ==
    /\ \E lines \in Outputs, audio_length \in AudioLengths :
          parse = [NoParse EXCEPT !.audio_length = audio_length, !.stdout_lines = lines]
    /\ reader = NoReader
    /\ canceller = NoCanceller
    /\ stderr_thread = [t \in Threads |-> "none"]
    /\ ns = NewNamespace
    /\ desk = NewDesk
    /\ sub = NoSub
    /\ tasks = << >>
    /\ heap = [o \in Objs |-> NoTask]
    /\ nobj = 0
    /\ thr = [t \in Threads |-> NoThread]
    /\ nthr = 0
    /\ now = 0
    /\ events = << >>
    /\ mon = "poll"
    /\ lock = "free"
    /\ ended_at = [o \in Objs |-> -1]

\* run_whisper_process, the read loop over the whole output: the progress it
\* derives line by line
ReadOutput ==
    /\ ~parse.read
    /\ parse' = [parse EXCEPT !.read = TRUE,
                              !.progress = [i \in 1..Len(parse.stdout_lines) |->
                                               line_progress(parse.stdout_lines[i])]]
    /\ UNCHANGED <<tasks, heap, nobj, thr, nthr, now, events, mon, lock, ended_at, reader, canceller, stderr_thread, ns, desk, sub>>

\* SoftWhisper.py, transcribe_audio, the read loop over the whole output: the
\* progress it passes to progress_callback line by line
ReadOutputDesktop ==
    /\ ~parse.desktop_read
    /\ parse' = [parse EXCEPT !.desktop_read = TRUE,
                              !.desktop_progress = [i \in 1..Len(parse.stdout_lines) |->
                                  desktop_line_progress(parse.stdout_lines[i], parse.audio_length)]]
    /\ UNCHANGED <<tasks, heap, nobj, thr, nthr, now, events, mon, lock, ended_at, reader, canceller, stderr_thread, ns, desk, sub>>

\* run_whisper_process, "# parse the final text" to its return
ParseOutput ==
    /\ parse.read
    /\ ~parse.returned
    /\ parse' = [parse EXCEPT !.returned = TRUE,
                              !.segments = segments(parse.stdout_lines)]
    /\ UNCHANGED <<tasks, heap, nobj, thr, nthr, now, events, mon, lock, ended_at, reader, canceller, stderr_thread, ns, desk, sub>>

(* --------------------- the socket layer: websocket.py ----------------- *)
\* socketio.emit(kind, {...}, room=room); progress is -1 where the event has none
Event(kind, task_id, progress, room) ==
    [kind |-> kind, task_id |-> task_id, progress |-> progress, room |-> room]

\* the event on_subscribe_task sends for a task that has ended
TerminalEvent(status) ==
    CASE status = COMPLETED -> "transcription_completed"
      [] status = ERROR     -> "transcription_error"
      [] status = CANCELLED -> "transcription_cancelled"

\* the subscribe_task messages handled so far: each sends a subscription_confirmed
\* after its progress_update, and nothing after an error or a terminal event
SubCalls == Cardinality({i \in 1..Len(events) : events[i].kind # "subscription_confirmed"})

\* WebWhisperNamespace.on_subscribe_task, from the connected client c
Subscribe(c, id) ==
    /\ SubCalls < MaxSubs
    /\ lock = "free"
    /\ lock' = with_lock(TRUE)
    /\ IF ~Has(tasks, id)
       THEN events' = Append(events, Event("error", "", -1, c))
       ELSE LET task == heap[Obj(tasks, id)]
            IN IF Terminal(task.status)
               THEN events' = Append(events, Event(TerminalEvent(task.status), id, -1, c))
               ELSE events' = events \o <<Event("progress_update", id, task.progress, c),
                                          Event("subscription_confirmed", id, -1, c)>>
    /\ UNCHANGED <<tasks, heap, nobj, thr, nthr, now, mon, ended_at, parse, reader, canceller, stderr_thread, ns, desk, sub>>

\* WebWhisperNamespace._monitor_all_tasks, one turn of its loop:
\* "tasks = task_manager.get_all_tasks()" raises AttributeError, TaskManager has
\* no such method; "except Exception" logs it and the thread sleeps.  The
\* broadcasts of the loop body are never reached.
MonitorPass ==
    /\ mon = "poll"
    /\ mon' = "backoff"
    /\ UNCHANGED <<tasks, heap, nobj, thr, nthr, now, events, lock, ended_at, parse, reader, canceller, stderr_thread, ns, desk, sub>>

\* _monitor_all_tasks: "time.sleep(1)" is over, "while not self.stop_monitoring"
MonitorWake ==
    /\ mon = "backoff"
    /\ mon' = "poll"
    /\ UNCHANGED <<tasks, heap, nobj, thr, nthr, now, events, lock, ended_at, parse, reader, canceller, stderr_thread, ns, desk, sub>>

(* ------------- the namespace and its monitor threads: websocket.py ----- *)
\* Thread.is_alive(): the thread was started and _monitor_all_tasks has not
\* returned; it is at the test of its loop ("while") or in a turn of it ("turn")
is_alive(m) == ns.threads[m] \in {"while", "turn"}

\* "self.task_monitor_thread is None or not self.task_monitor_thread.is_alive()"
NoMonitor == ns.task_monitor_thread = 0 \/ ~is_alive(ns.task_monitor_thread)

\* the monitor threads started so far
Started == {m \in Monitors : ns.threads[m] # "unborn"}

\* the namespace after _start_task_monitor, called on the namespace n
start_task_monitor(n) ==
    LET m == Cardinality(Started) + 1
    IN [n EXCEPT !.stop_monitoring = FALSE,
                 !.task_monitor_thread = m,
                 !.threads = [@ EXCEPT ![m] = "while"]]

\* WebWhisperNamespace.on_connect of the client sid
OnConnect(sid) ==
    /\ sid \notin ns.clients
    /\ IF NoMonitor
       THEN /\ Cardinality(Started) < MaxMonitors
            /\ ns' = start_task_monitor([ns EXCEPT !.clients = @ \cup {sid}])
       ELSE ns' = [ns EXCEPT !.clients = @ \cup {sid}]
    /\ UNCHANGED <<tasks, heap, nobj, thr, nthr, now, events, mon, lock, ended_at, parse, reader, canceller, stderr_thread, desk, sub>>

\* WebWhisperNamespace.on_disconnect of the client sid
OnDisconnect(sid) ==
    /\ sid \in ns.clients
    /\ IF ns.clients = {sid} /\ ns.task_monitor_thread # 0
       THEN ns' = [ns EXCEPT !.clients = {}, !.stop_monitoring = TRUE,
                             !.task_monitor_thread = 0]
       ELSE ns' = [ns EXCEPT !.clients = @ \ {sid}]
    /\ UNCHANGED <<tasks, heap, nobj, thr, nthr, now, events, mon, lock, ended_at, parse, reader, canceller, stderr_thread, desk, sub>>

\* _monitor_all_tasks, "while not self.stop_monitoring:": the thread m goes into
\* a turn of its loop, or returns
MonitorWhile(m) ==
    /\ ns.threads[m] = "while"
    /\ ns' = [ns EXCEPT !.threads[m] = IF ns.stop_monitoring THEN "ended" ELSE "turn"]
    /\ UNCHANGED <<tasks, heap, nobj, thr, nthr, now, events, mon, lock, ended_at, parse, reader, canceller, stderr_thread, desk, sub>>

\* _monitor_all_tasks, a turn of the loop to the end of its sleep
MonitorTurn(m) ==
    /\ ns.threads[m] = "turn"
    /\ ns' = [ns EXCEPT !.threads[m] = "while"]
    /\ UNCHANGED <<tasks, heap, nobj, thr, nthr, now, events, mon, lock, ended_at, parse, reader, canceller, stderr_thread, desk, sub>>

(* ------------------ the desktop application: SoftWhisper.py ----------- *)
\* the transcription thread t is at work: started, transcribe_file not ended
DeskActive(t) == desk.threads[t].pc \in {"begin", "loop", "finally"}

DeskStarted == {t \in DeskThreads : desk.threads[t].pc # "unborn"}

\* SoftWhisper.start_transcription, the command of the start button
StartTranscription ==
    /\ desk.start_button = "normal"
    /\ Cardinality(DeskStarted) < MaxDeskThreads
    /\ desk' = [desk EXCEPT !.start_button = "disabled",
                            !.stop_button = "normal",
                            !.transcription_stop_event = FALSE,
                            !.threads[Cardinality(DeskStarted) + 1].pc = "begin"]
    /\ UNCHANGED <<tasks, heap, nobj, thr, nthr, now, events, mon, lock, ended_at, parse, reader, canceller, stderr_thread, ns, sub>>

\* SoftWhisper.stop_processing, the command of the stop button
StopProcessing ==
    /\ desk.stop_button = "normal"
    /\ desk' = [desk EXCEPT !.transcription_stop_event = TRUE,
                            !.stop_button = "disabled",
                            !.after = @ + 1,
                            !.threads = [t \in DeskThreads |->
                                [@[t] EXCEPT !.stopped = @ \/ DeskActive(t)]]]
    /\ UNCHANGED <<tasks, heap, nobj, thr, nthr, now, events, mon, lock, ended_at, parse, reader, canceller, stderr_thread, ns, sub>>

\* SoftWhisper.enable_buttons, run by the event loop for a
\* "self.root.after(0, self.enable_buttons)"
EnableButtons ==
    /\ desk.after > 0
    /\ desk' = [desk EXCEPT !.after = @ - 1,
                            !.start_button = "normal",
                            !.stop_button = "disabled"]
    /\ UNCHANGED <<tasks, heap, nobj, thr, nthr, now, events, mon, lock, ended_at, parse, reader, canceller, stderr_thread, ns, sub>>

\* transcribe_file up to the spawn in transcribe_audio: "if not
\* self.transcription_stop_event.is_set():", else "Transcription aborted."
DeskBegin(t) ==
    /\ desk.threads[t].pc = "begin"
    /\ IF desk.transcription_stop_event
       THEN desk' = [desk EXCEPT !.threads[t].pc = "finally"]
       ELSE desk' = [desk EXCEPT !.threads[t].pc = "loop", !.threads[t].proc = "running"]
    /\ UNCHANGED <<tasks, heap, nobj, thr, nthr, now, events, mon, lock, ended_at, parse, reader, canceller, stderr_thread, ns, sub>>

\* transcribe_audio, a turn of "while process.poll() is None:": the child has
\* exited, or the stop event is up and the child is killed (by the psutil block
\* or by the "finally" after it), or a line is read
DeskLoop(t) ==
    /\ desk.threads[t].pc = "loop"
    /\ IF desk.threads[t].proc # "running"
       THEN desk' = [desk EXCEPT !.threads[t].pc = "finally"]
       ELSE IF desk.transcription_stop_event
       THEN desk' = [desk EXCEPT !.threads[t].pc = "finally", !.threads[t].proc = "killed"]
       ELSE desk' = desk
    /\ UNCHANGED <<tasks, heap, nobj, thr, nthr, now, events, mon, lock, ended_at, parse, reader, canceller, stderr_thread, ns, sub>>

\* the child process of the transcription thread t exits by itself
DeskProcExit(t) ==
    /\ desk.threads[t].proc = "running"
    /\ desk' = [desk EXCEPT !.threads[t].proc = "exited"]
    /\ UNCHANGED <<tasks, heap, nobj, thr, nthr, now, events, mon, lock, ended_at, parse, reader, canceller, stderr_thread, ns, sub>>

\* transcribe_file, "finally: self.root.after(0, self.enable_buttons)", and the
\* thread ends
DeskFinally(t) ==
    /\ desk.threads[t].pc = "finally"
    /\ desk' = [desk EXCEPT !.threads[t].pc = "done", !.after = @ + 1]
    /\ UNCHANGED <<tasks, heap, nobj, thr, nthr, now, events, mon, lock, ended_at, parse, reader, canceller, stderr_thread, ns, sub>>

(* ------------------ Transcriber.generate_srt -------------------------- *)
\* Python values with their types: a member of the Enum TaskStatus, and a str.
\* TaskStatus derives from Enum alone, so a member and a str are equal only when
\* they are the same object
EnumMember(status) == [type |-> "TaskStatus", value |-> status]
Str(s) == [type |-> "str", value |-> s]

\* "task.status != 'completed'" of generate_srt
StatusIsNotCompleted(status) == EnumMember(status) # Str("completed")

\* Transcriber.generate_srt(task_id) as routes.py calls it; saved is what
\* save_srt returns. The errors stand for '任务不存在', '转录尚未完成',
\* '保存SRT文件失败' and '生成SRT文件失败: ...' (task.result is None)
generate_srt(id, saved) ==
    IF get_task(id) = 0
    THEN [success |-> FALSE, error |-> "task does not exist"]
    ELSE IF StatusIsNotCompleted(heap[get_task(id)].status)
    THEN [success |-> FALSE, error |-> "transcription not finished"]
    ELSE IF heap[get_task(id)].result = None
    THEN [success |-> FALSE, error |-> "generating the SRT file failed"]
    ELSE IF saved
    THEN [success |-> TRUE, error |-> ""]
    ELSE [success |-> FALSE, error |-> "saving the SRT file failed"]

(* ------------- on_subscribe_task beside the supervisor ---------------- *)
\* on_subscribe_task up to "task = task_manager.get_task(task_id)", which
\* takes the lock: an unknown id is answered with 'error'
SubscribeEnter(c, id) ==
    /\ sub.pc = "idle"
    /\ sub.n < MaxSubs
    /\ lock = "free"
    /\ IF get_task(id) = 0
       THEN /\ events' = Append(events, Event("error", "", -1, c))
            /\ sub' = [NoSub EXCEPT !.sid = c, !.task_id = id, !.n = sub.n + 1]
       ELSE /\ events' = events
            /\ sub' = [pc |-> "is_completed", sid |-> c, task_id |-> id, task |-> get_task(id),
                       seen |-> {heap[get_task(id)].status}, n |-> sub.n + 1]
    /\ UNCHANGED <<tasks, heap, nobj, thr, nthr, now, mon, lock, ended_at, parse, reader, canceller, stderr_thread, ns, desk>>

\* the three tests of task.status, each a read without the lock, and the
\* emission of the branch taken; the Completed branch goes on to read the result
SubscribeTest ==
    /\ sub.pc \in {"is_completed", "is_error", "is_cancelled"}
    /\ LET task == heap[sub.task]
       IN CASE sub.pc = "is_completed" ->
                 /\ events' = events
                 /\ sub' = [sub EXCEPT !.pc = IF task.status = COMPLETED THEN "result" ELSE "is_error"]
            [] sub.pc = "is_error" ->
                 IF task.status = ERROR
                 THEN /\ events' = Append(events, Event("transcription_error", sub.task_id, -1, sub.sid))
                      /\ sub' = [sub EXCEPT !.pc = "idle"]
                 ELSE /\ events' = events
                      /\ sub' = [sub EXCEPT !.pc = "is_cancelled"]
            [] sub.pc = "is_cancelled" ->
                 /\ sub' = [sub EXCEPT !.pc = "idle"]
                 /\ IF task.status = CANCELLED
                    THEN events' = Append(events, Event("transcription_cancelled", sub.task_id, -1, sub.sid))
                    ELSE events' = events \o <<Event("progress_update", sub.task_id, task.progress, sub.sid),
                                               Event("subscription_confirmed", sub.task_id, -1, sub.sid)>>
    /\ UNCHANGED <<tasks, heap, nobj, thr, nthr, now, mon, lock, ended_at, parse, reader, canceller, stderr_thread, ns, desk>>

\* the Completed branch: "task.result.get('text', '')" inside the try; on a
\* result that is still None it raises, the except logs, and the handler returns
SubscribeResult ==
    /\ sub.pc = "result"
    /\ sub' = [sub EXCEPT !.pc = "idle"]
    /\ IF heap[sub.task].result = None
       THEN events' = events
       ELSE events' = Append(events, Event("transcription_completed", sub.task_id, -1, sub.sid))
    /\ UNCHANGED <<tasks, heap, nobj, thr, nthr, now, mon, lock, ended_at, parse, reader, canceller, stderr_thread, ns, desk>>

\* a step of another thread while the call is under way: the status it leaves
\* the task in is added to the statuses seen
SubscribeWatch ==
    /\ sub' = IF sub.pc = "idle" THEN sub
              ELSE [sub EXCEPT !.seen = @ \cup {heap'[sub.task].status}]
    /\ UNCHANGED <<events, mon, ended_at, parse, reader, canceller, stderr_thread, ns, desk>>

(* --------------------------- environment ------------------------------ *)
\* the child process exits by itself: 0 (success) or not
ProcExit(t, code) ==
    /\ Alive(thr[t].proc)
    /\ thr' = [thr EXCEPT ![t].proc = code]
    /\ UNCHANGED <<tasks, heap, nobj, nthr, now, lock>>

\* the child process closes its stdout and goes on running
ProcMute(t) ==
    /\ thr[t].proc = "running"
    /\ thr' = [thr EXCEPT ![t].proc = "mute"]
    /\ UNCHANGED <<tasks, heap, nobj, nthr, now, lock>>

\* time passes, up to max_time
TickTo(max_time) ==
    /\ now < max_time
    /\ now' = now + 1
    /\ UNCHANGED <<tasks, heap, nobj, thr, nthr, lock>>

\* time passes
Tick == TickTo(MaxTime)

(* ============================== claims ================================ *)
Made == 1..nobj
\* the supervisor thread t is between its launch and its end
Active(t) == thr[t].pc \notin {"unborn", "done"}
\* the supervisor threads at work on the task object o
Supervisors(o) == {t \in Threads : Active(t) /\ thr[t].task = o}

\* C1: once a task's status is Completed, Cancelled or Failed, the status never
\* changes again, whatever create_task, start_task, cancel_task and the
\* supervisors do afterwards.
C1_TerminalImmutable ==
    [][\A o \in Made : Terminal(heap[o].status) => heap'[o].status = heap[o].status]_vars

\* no id was handed to create_task twice
UniqueIds == \A o1, o2 \in Made : o1 # o2 => heap[o1].task_id # heap[o2].task_id

\* C2: at any time at most one supervisor thread is active for a task id,
\* whatever start_task and cancel_task calls were made on it.
C2_AtMostOneSupervisor ==
    UniqueIds =>
        \A id \in TaskIds : Cardinality({t \in Threads : Active(t) /\ thr[t].task_id = id}) <= 1

\* C3: start_task(id) returns False, changes no task and launches no supervisor
\* unless the task is stored and Pending; for a Pending task it sets Running,
\* launches exactly one supervisor and returns True.
C3_StartOnlyPending ==
    [][\A id \in TaskIds : StartTask(id) =>
          IF Has(tasks, id) /\ heap[Obj(tasks, id)].status = PENDING
          THEN /\ start_task(id)
               /\ heap'[Obj(tasks, id)].status = RUNNING
               /\ nthr' = nthr + 1
          ELSE /\ ~start_task(id)
               /\ heap' = heap
               /\ thr' = thr /\ nthr' = nthr]_vars

\* cancel_task(id) returns True exactly when the task is stored and Running
CancelReturn ==
    \A id \in TaskIds :
        cancel_task(id) <=> (Has(tasks, id) /\ heap[Obj(tasks, id)].status = RUNNING)

\* the step is a cancel_task call that was not refused: of all steps, only
\* these change a task and nothing else
CancelStep == heap' # heap /\ thr' = thr /\ nobj' = nobj /\ now' = now

\* C4: cancel_task(id) returns False and leaves the task as it was (status,
\* message, stop event) unless the task is stored and Running; for a Running
\* task it raises the stop event and returns True at once: the supervisor
\* threads and their child processes are as they were, it waits for nothing.
C4_CancelContract ==
    [][/\ CancelReturn
       /\ CancelStep =>
            \E id \in Ids(tasks) :
                /\ heap[Obj(tasks, id)].status = RUNNING
                /\ heap'[Obj(tasks, id)].stop_event
                /\ \A o \in Objs \ {Obj(tasks, id)} : heap'[o] = heap[o]
                /\ tasks' = tasks /\ nthr' = nthr]_vars

\* C4 witness: cancel_task has returned True for a task whose child process is
\* still running.
C4_Witness ==
    \E t \in Threads : /\ thr[t].proc = "running"
                       /\ heap[thr[t].task].stop_event
                       /\ thr[t].pc \in {"loop", "read"}

\* the supervisor t is about to record a successful result (its child process
\* exited with code 0 and the stop event was not set when it last looked) on
\* its own task, and cancel_task has been called on that task in between
LateCancel(t) ==
    /\ thr[t].pc = "record"
    /\ thr[t].result = "ok"
    /\ Has(tasks, thr[t].task_id)
    /\ Obj(tasks, thr[t].task_id) = thr[t].task
    /\ heap[thr[t].task].stop_event

C6_ResultMatchesStatus ==
    \A o \in Made :
        /\ heap[o].status = COMPLETED => (heap[o].progress = 100 /\ heap[o].result # None)
        /\ heap[o].status \in {ERROR, CANCELLED} => heap[o].result = None

\* C7: a task never has both result and error; result is set only while
\* Completed, error only while Failed.
C7_ResultXorError ==
    \A o \in Made :
        /\ ~(heap[o].result # None /\ heap[o].error # None)
        /\ heap[o].result # None => heap[o].status = COMPLETED
        /\ heap[o].error # None => heap[o].status = ERROR

\* C8: the progress values written to a task never decrease.
C8_ProgressMonotone ==
    [][\A o \in Made : heap'[o].progress >= heap[o].progress]_vars

\* C9: create_task with a missing input path stores a Failed task with an error,
\* and no child process ever runs for that task.
C9_MissingInputNeverSpawns ==
    [][/\ \A o \in Objs : (nobj' = o /\ nobj = o - 1 /\ heap'[o].error = "file_missing")
            => /\ heap'[o].status = ERROR
               /\ Has(tasks', heap'[o].task_id)
               /\ Obj(tasks', heap'[o].task_id) = o
       /\ \A t \in Threads :
            thr'[t].proc = "running" => heap'[thr'[t].task].error # "file_missing"]_vars

\* the stored task with the smallest created_at is e
Oldest(e) == \A i \in Ids(tasks) :
    heap[Obj(tasks, e)].created_at <= heap[Obj(tasks, i)].created_at

\* C10: with max_tasks tasks stored, creating one more (under a new id) evicts
\* exactly one task, the one with the smallest created_at; get_task of the
\* evicted id finds nothing and the other max_tasks tasks, the new one among
\* them, are stored.
C10_EvictsOldest ==
    [][(nobj' = nobj + 1 /\ Len(tasks) = max_tasks /\ ~Has(tasks, heap'[nobj'].task_id))
        => \E e \in Ids(tasks) :
              /\ Oldest(e)
              /\ ~Has(tasks', e)
              /\ Ids(tasks') = (Ids(tasks) \ {e}) \cup {heap'[nobj'].task_id}
              /\ \A i \in Ids(tasks) \ {e} : Obj(tasks', i) = Obj(tasks, i)
              /\ Obj(tasks', heap'[nobj'].task_id) = nobj']_vars

\* C11: no two tasks created during the registry's lifetime share an id; a
\* create_task call never replaces a task already stored under its id.
C11_CreateNeverOverwrites ==
    [][nobj' = nobj + 1 =>
          /\ \A o \in Made : heap[o].task_id # heap'[nobj'].task_id
          /\ ~Has(tasks, heap'[nobj'].task_id)]_vars

\* the terminal events the monitor thread has broadcast for the task id (its
\* emits name no room: they go to every client of the namespace)
TerminalBroadcasts(id) ==
    {i \in 1..Len(events) :
        /\ events[i].room = "/"
        /\ events[i].task_id = id
        /\ events[i].kind \in {"transcription_completed", "transcription_error",
                               "transcription_cancelled"}}

\* the task stored under id has reached a terminal status
Ended(id) == Has(tasks, id) /\ Terminal(heap[Obj(tasks, id)].status)

\* no two terminal events were broadcast for the task id
AtMostOneBroadcast(id) == \A i, j \in TerminalBroadcasts(id) : i = j

\* the terminal event of the status of the task id was broadcast
Reported(id) ==
    /\ Ended(id)
    /\ \E i \in TerminalBroadcasts(id) :
          events[i].kind = TerminalEvent(heap[Obj(tasks, id)].status)

\* C12: for every task that reaches a terminal status the monitor broadcasts
\* exactly one terminal event, the one of its status: never more than one, and
\* (with the monitor and the supervisors scheduled fairly) sooner or later one.
C12_ExactlyOneTerminalEvent ==
    \A id \in TaskIds :
        /\ []AtMostOneBroadcast(id)
        /\ [](Ended(id) => <>Reported(id))

\* the progress_update events sent to the client c for the task id
ProgressUpdates(c, id) ==
    {i \in 1..Len(events) :
        events[i].kind = "progress_update" /\ events[i].room = c /\ events[i].task_id = id}

\* C13: the progress events of one task reach a subscriber in the order in
\* which the supervisor emitted them, with percentages that never decrease.
C13_DeliveredProgressMonotone ==
    \A c \in Clients, id \in TaskIds :
        \A i, j \in ProgressUpdates(c, id) :
            i < j => events[i].progress <= events[j].progress

\* the supervisor t is back from run_whisper_process with the result of a child
\* that exited with a non-zero code, and nobody has asked to cancel the task
\* stored under its id
ExitFailure(t) ==
    /\ thr[t].pc = "record"
    /\ thr[t].result = "exit_failed"
    /\ Has(tasks, thr[t].task_id)
    /\ ~heap[Obj(tasks, thr[t].task_id)].stop_event

C15_ChildGoneOnReturn ==
    \A t \in Threads : thr[t].pc = "record" => ~Alive(thr[t].proc)

\* C15 witness: run_whisper_process has returned after an exception in its read
\* loop, and the child it had to stop on the way out is stopped.
C15_Witness ==
    \E t \in Threads :
        /\ thr[t].pc = "record"
        /\ thr[t].result = "process_exc"
        /\ thr[t].proc = "killed"

\* the supervisor t is in its read loop and the cancel signal of its task is up
CancelPending(t) ==
    /\ thr[t].pc \in {"loop", "read"}
    /\ heap[thr[t].task].stop_event

\* the supervisor t has left its read loop
LoopLeft(t) == thr[t].pc \notin {"loop", "read"}

\* C16: once the cancel signal of a running task is up, its supervisor sooner or
\* later sees it and leaves the read loop (to kill the child), also when the
\* child prints nothing more and never exits: the loop never waits for the
\* child without looking at the signal again.
C16_CancelObserved ==
    \A t \in Threads : [](CancelPending(t) => <>LoopLeft(t))

\* C17: cancel_task called twice on a task, the second time now or later,
\* leaves every task (status, stop event, message, times, and with them what
\* the supervisor will record) as one call does.
C17_CancelIdempotent ==
    \A id \in TaskIds, t2 \in now..MaxTime :
        CancelOn(CancelOn(heap, id, now), id, t2) = CancelOn(heap, id, now)

\* C17 witness: a running task was cancelled, time has passed, and a second
\* cancel_task on it is refused.
C17_Witness ==
    \E id \in Ids(tasks) :
        /\ heap[Obj(tasks, id)].status = CANCELLED
        /\ heap[Obj(tasks, id)].stop_event
        /\ heap[Obj(tasks, id)].updated_at < now
        /\ ~cancel_task(id)

\* the step is a failure in the run of the supervisor t: it reports or records
\* that its run has failed (the model file is missing, the spawn or the run
\* raised, the child exited with a non-zero code)
SupFailStep(t) ==
    /\ thr[t].pc \in {"transcribe", "read", "drain", "record"}
    /\ thr'[t] # thr[t]
    /\ thr'[t].result \notin {None, "ok", "cancelled"}

\* the step is a create_task that finds no input file and makes the task o
CreateFailStep(o) ==
    nobj = o - 1 /\ nobj' = o /\ heap'[o].status = ERROR

\* C18: a failure of one task (no input file, a failed spawn or run, a non-zero
\* exit) changes no field of any other task, leaves the other tasks stored, and
\* leaves the registry lock free, so that create, start, cancel and get go on
\* to work.
C18_FailureIsolated ==
    [][/\ \A t \in Threads : SupFailStep(t) =>
             /\ \A p \in Objs \ {thr[t].task} : heap'[p] = heap[p]
             /\ tasks' = tasks
             /\ lock' = "free"
       /\ \A o \in Objs : CreateFailStep(o) =>
             /\ \A p \in Objs \ {o} : heap'[p] = heap[p]
             /\ \A i \in Ids(tasks) \ {heap'[o].task_id} :
                   Has(tasks', i) /\ Obj(tasks', i) = Obj(tasks, i)
             /\ lock' = "free"]_vars

\* the places in the registry of the tasks that are in a terminal status and
\* reached it more than max_age ago
EndedLongAgo(max_age) ==
    {i \in 1..Len(tasks) :
        /\ Terminal(heap[tasks[i].obj].status)
        /\ ended_at[tasks[i].obj] < now - max_age}

\* C19: clean_completed_tasks(max_age) removes exactly the tasks that are in a
\* terminal status and reached it more than max_age ago, leaves the others
\* stored, and returns the number of tasks it removed.
C19_CleanRemovesOldTerminal ==
    \A max_age \in 0..MaxAge :
        /\ to_delete(tasks, heap, now, max_age) = EndedLongAgo(max_age)
        /\ clean_completed_tasks(max_age) = Cardinality(EndedLongAgo(max_age))

\* the line, trimmed, has the form of a segment: a timestamp bracket, a space,
\* and text after it
IsSegmentLine(line) ==
    \E i \in 1..Len(strip(line)) :
        /\ strip(line)[i] \in Stamps
        /\ i < Len(strip(line))
        /\ strip(line)[i + 1] = " "

\* h*3600 + m*60 + s + ms/1000, in milliseconds
Millis(ts) == ((ts[1] * 60 + ts[2]) * 60 + ts[3]) * 1000 + ts[4]

\* the segment a segment line stands for: the times of its first bracket that a
\* space follows, and the text after that space, trimmed
SegmentOf(line) ==
    LET l == strip(line)
        i == CHOOSE k \in 1..Len(l) :
               /\ l[k] \in Stamps /\ k < Len(l) /\ l[k + 1] = " "
               /\ \A j \in 1..(k - 1) : ~(l[j] \in Stamps /\ l[j + 1] = " ")
    IN [start |-> Millis(StartOf(l[i])),
        end   |-> Millis(EndOf(l[i])),
        text  |-> strip(SubSeq(l, i + 2, Len(l)))]

\* segs are the segments of the segment lines among lines, in their order
AreSegmentsOf(segs, lines) ==
    LET at == {i \in 1..Len(lines) : IsSegmentLine(lines[i])}
    IN /\ Len(segs) = Cardinality(at)
       /\ \A i \in at : segs[Cardinality({j \in at : j <= i})] = SegmentOf(lines[i])

\* C20 as claimed: the segments of a result are exactly the lines of the form
\* "[HH:MM:SS.mmm --> HH:MM:SS.mmm] text", in input order, each with its times
\* in seconds and its text trimmed; other lines give no segment.
C20_SegmentsAreMatchingLines ==
    parse.returned => AreSegmentsOf(parse.segments, parse.stdout_lines)

\* C20 as amended: so it is when at least one line has that form; when none
\* has, the result has one segment, from 0 to 100 seconds, with the whole
\* trimmed output as its text.
C20_SegmentsOrFallback ==
    parse.returned =>
        IF \E i \in 1..Len(parse.stdout_lines) : IsSegmentLine(parse.stdout_lines[i])
        THEN AreSegmentsOf(parse.segments, parse.stdout_lines)
        ELSE parse.segments =
                <<[start |-> 0, end |-> 100000, text |-> strip(join(parse.stdout_lines))]>>

\* C20 witness: "[00:00:01.000 --> 00:00:02.500] a" after a line without a
\* timestamp was parsed to the one segment {1.0, 2.5, "a"}.
C20_Witness ==
    /\ parse.returned
    /\ parse.stdout_lines = << <<"a">>, <<"T1", " ", "a">> >>
    /\ parse.segments = <<[start |-> 1000, end |-> 2500, text |-> <<"a">>]>>

\* clamp(round(100 * start / total), 0, 100), start and total in milliseconds,
\* a half rounded up
Percent(start_ms, total_ms) ==
    LET r == (200 * start_ms + total_ms) \div (2 * total_ms)
    IN IF r < 0 THEN 0 ELSE IF r > 100 THEN 100 ELSE r

\* the line carries a timestamp bracket
IsStamped(line) == \E i \in 1..Len(line) : line[i] \in Stamps

\* the start, in milliseconds, of the first bracket of a stamped line
StampedStart(line) ==
    Millis(StartOf(line[CHOOSE i \in 1..Len(line) :
                           line[i] \in Stamps /\ \A j \in 1..(i - 1) : line[j] \notin Stamps]))

\* C21: the progress derived from a timestamped output line is
\* clamp(round(100 * start / total), 0, 100), start the start of the line's
\* segment and total the true duration of the input: 25 for 1.0 s of 4.0 s.
C21_ProgressOfDuration ==
    parse.read =>
        \A i \in 1..Len(parse.stdout_lines) :
            IsStamped(parse.stdout_lines[i]) =>
                parse.progress[i] = Percent(StampedStart(parse.stdout_lines[i]), parse.audio_length)

\* C22: when no line of the output matches the timestamp pattern, the result
\* has exactly one segment: it starts at 0.0, ends at the total duration of the
\* input, and its text is the raw text of the output.
C22_FallbackSpansInput ==
    (parse.returned /\ \A i \in 1..Len(parse.stdout_lines) : ~IsSegmentLine(parse.stdout_lines[i]))
        => parse.segments = <<[start |-> 0, end |-> parse.audio_length,
                               text |-> strip(join(parse.stdout_lines))]>>

\* C23: cancel_task only raises the cancel signal: the task it was called on is
\* Running still when it returns, and a task is Cancelled only once its
\* supervisor has seen the signal and left the loop that drives the child.
C23_CancelOnlySignals ==
    [][/\ \A o \in Made : (CancelStep /\ heap'[o] # heap[o]) =>
             /\ heap'[o].stop_event
             /\ heap'[o].status = RUNNING
       /\ \A t \in Threads : thr'[t].pc \in {"loop", "read"} =>
             heap'[thr'[t].task].status # CANCELLED]_vars

\* C24: a cancel_task that returned True is never lost: from the step that
\* raises the cancel signal of a task on, the signal stays up and the task is
\* never Completed; a supervisor that ends later and finds the task under its
\* id records Cancelled.
C24_CancelNeverLost ==
    [][/\ \A o \in Made :
             (heap[o].stop_event \/ heap'[o].stop_event) =>
                 /\ heap'[o].stop_event
                 /\ heap'[o].status # COMPLETED
       /\ \A t \in Threads :
             (/\ thr[t].pc = "record" /\ thr'[t].pc = "done"
              /\ Has(tasks, thr[t].task_id)
              /\ heap[Obj(tasks, thr[t].task_id)].stop_event)
                 => heap'[Obj(tasks, thr[t].task_id)].status = CANCELLED]_vars

\* C24 witness: a task was cancelled and started again, and the supervisor of
\* the second run has ended: the signal is up and the task is Cancelled.
C24_Witness ==
    \E t1, t2 \in Threads :
        /\ t1 # t2
        /\ thr[t1].pc = "done" /\ thr[t2].pc = "done"
        /\ thr[t1].task = thr[t2].task
        /\ thr[t1].task \in Made
        /\ heap[thr[t1].task].stop_event
        /\ heap[thr[t1].task].status = CANCELLED

\* C25: whenever no create_task call is under way (the registry lock is free),
\* the registry holds at most max_tasks tasks, whatever create_task calls were
\* made, those with a missing input path among them.
C25_WithinCapacity ==
    lock = "free" => Len(tasks) <= max_tasks

\* C26: a Pending task changes its status only by a start_task that succeeds,
\* to Running: no supervisor and no cancel_task takes a Pending task to
\* Completed, Cancelled or Failed, whatever was created, started or evicted
\* under its id before.
C26_PendingLeavesByStart ==
    [][\A o \in Made :
          (heap[o].status = PENDING /\ heap'[o].status # PENDING) =>
              /\ heap'[o].status = RUNNING
              /\ nthr' = nthr + 1
              /\ thr'[nthr'].pc = "begin"]_vars

\* C27: every task that start_task has set Running reaches a terminal status
\* sooner or later, given that its supervisor gets to run and its child process
\* exits: no started task stays Running for ever, one that was evicted while
\* running included.
C27_StartedEnds ==
    \A o \in Objs : [](heap[o].status = RUNNING => <>Terminal(heap[o].status))

\* the supervisor t is back from a run_whisper_process whose spawn raised: it
\* has the result of the exception and never had a child process
SpawnFailed(t) ==
    /\ thr[t].pc = "record"
    /\ thr[t].result = "process_exc"
    /\ thr[t].proc = "none"

\* C28: when the spawn of the child process raises, the task ends Failed with
\* the description of the error, no process exists for it, and the supervisor
\* thread ends in the ordinary way, the exception caught.
C28_SpawnFailureFails ==
    [][\A t \in Threads : (SpawnFailed(t) /\ thr'[t] # thr[t]) =>
          /\ heap'[thr[t].task].status = ERROR
          /\ heap'[thr[t].task].error = "process_exc"
          /\ thr'[t].pc = "done"
          /\ thr'[t].proc = "none"]_vars

\* the step in which the supervisor t sees the cancel signal in its read loop
SeesCancel(t) ==
    /\ thr[t].pc = "loop"
    /\ thr'[t].pc = "drain"
    /\ thr'[t].cancelled

\* C29: when the supervisor sees the cancel signal it kills the top-level child
\* process in any case, also when the enumeration or the kill of a descendant
\* fails: that failure is logged and the cancellation goes on.
C29_CancelKillsChild ==
    [][\A t \in Threads : SeesCancel(t) => thr'[t].proc = "killed"]_vars

\* C30: a reader that got a task by get_task and reads its fields with no
\* further coordination never sees status Completed and then no result, or a
\* progress below 100: it sees the terminal transition whole.
C30_ReaderSeesCompleteWhole ==
    (reader.pc = "idle" /\ reader.status = COMPLETED) =>
        /\ reader.kind = "subtitles" => reader.result # None
        /\ reader.kind = "status" => reader.progress = 100

\* the fields of a task that the claim of a single writer is about
TaskFields == {"status", "progress", "message", "updated_at"}

\* the step is a write of the supervisor t to its task outside the registry
\* lock: a progress_callback from transcribe_audio
UnlockedWrite(t) ==
    /\ thr[t].pc \in {"transcribe", "read", "drain", "check", "parse"}
    /\ thr'[t] # thr[t]
    /\ heap'[thr[t].task] # heap[thr[t].task]

\* the fields of the task object o that the step assigns another value
Changed(o) == {f \in TaskFields : heap'[o][f] # heap[o][f]}

\* the fields task.cancel() assigns
CancelWrites == {CancelFields[k] : k \in 1..Len(CancelFields)}

\* C31: no field of a task (status, progress, message, updated_at) is written
\* by two threads at a time: while a cancel_task call is at work on a task,
\* inside the registry lock, the supervisor of the task writes none of the
\* fields that cancel writes.
C31_SingleWriter ==
    [][\A t \in Threads :
          (UnlockedWrite(t) /\ canceller.pc # "idle" /\ canceller.task = thr[t].task)
              => Changed(thr[t].task) \cap CancelWrites = {}]_vars

\* where a supervisor spawns its child process, reads from it or waits for it
ProcessPcs == {"transcribe", "loop", "read", "drain"}

\* the registry lock is held by a thread that is inside task.cancel() or
\* task.complete(): its next statement waits for nothing
HolderAtWork ==
    \/ canceller.pc \in {CancelFields[k] : k \in 2..Len(CancelFields)}
    \/ \E t \in Threads : thr[t].pc \in {CompleteFields[k] : k \in 2..Len(CompleteFields)}

\* the status of some task changes in the step
StatusStep == \E o \in Objs : heap'[o].status # heap[o].status

\* C32: the registry lock is not held over the child process.  A step in which
\* a supervisor spawns, reads from or waits for its child neither needs nor
\* takes the lock; the status of a task changes only in steps that take the
\* lock (a registry call, or the supervisor at the record of its result); and
\* whenever the lock is held, its holder is at a statement of cancel() or
\* complete(), which waits for no process.
C32_LockNotOverProcess ==
    [][/\ \A t \in Threads :
             (thr'[t] # thr[t] /\ thr[t].pc \in ProcessPcs) => (lock' = lock /\ ~StatusStep)
       /\ \A t \in Threads :
             (thr'[t] # thr[t] /\ StatusStep) => (thr[t].pc \in {"unborn", "record"} /\ lock = "free")
       /\ (thr' = thr /\ StatusStep) => lock = "free"
       /\ lock' = "held" => HolderAtWork']_vars

\* C32 witness: a cancel_task call holds the lock, inside cancel(), while the
\* supervisor of the task is in its read loop with its child running; the
\* supervisor has read a line of the child meanwhile.
C32_Witness ==
    \E t \in Threads :
        /\ lock = "held"
        /\ canceller.pc = "updated_at"
        /\ canceller.task = thr[t].task
        /\ thr[t].proc = "running"
        /\ thr[t].pc = "loop"
        /\ thr[t].nlines = 1
        /\ heap[thr[t].task].updated_at < now

\* the progress events of the task object o that no one has taken from its
\* progress_queue
Undelivered(o) == heap[o].progress_queue # << >>

\* C33: every progress event a supervisor puts into a task's progress_queue is
\* delivered sooner or later (with the monitor and the supervisors scheduled
\* fairly): once the task has ended, no event, the 90 and the 100 included,
\* stays in the queue for ever.
C33_QueueDelivered ==
    \A o \in Objs : [](Undelivered(o) => <>(~Undelivered(o)))

\* the step is a per-segment progress emission of the supervisor t: the
\* progress_callback of the read loop
SegmentEmission(t) ==
    /\ thr[t].pc = "read"
    /\ thr'[t] # thr[t]
    /\ heap'[thr[t].task] # heap[thr[t].task]
    /\ heap'[thr[t].task].message.kind = "transcribing"

\* the step of the supervisor t passes a milestone: the 0 of a run that failed
\* or was cancelled, the 90 before the output is parsed, the 100 after it
Milestone(t) ==
    \/ thr[t].pc = "drain" /\ thr'[t].pc = "record"
    \/ thr[t].pc = "check" /\ thr'[t] # thr[t]
    \/ thr[t].pc = "parse" /\ thr'[t] # thr[t]

\* the progress the step of the supervisor t at a milestone has to report
MilestoneProgress(t) ==
    IF thr[t].pc = "parse" THEN 100
    ELSE IF thr'[t].pc = "parse" THEN 90
    ELSE 0

\* C34: between two consecutive per-segment progress emissions of one
\* supervisor run at least 500 ms (ThrottleTicks) pass; the milestones 0, 90 and
\* 100 are emitted whenever they are reached, however recent the last emission.
\* last_progress_time of a run is the time of its last per-segment emission, or
\* of its entry into the read loop before the first one.
C34_Throttled ==
    [][\A t \in Threads :
          /\ SegmentEmission(t)
                => now - thr[t].last_progress_time >= ThrottleTicks
          /\ Milestone(t) =>
                heap'[thr[t].task].progress_queue =
                    Append(heap[thr[t].task].progress_queue,
                           [progress |-> MilestoneProgress(t),
                            message  |-> heap'[thr[t].task].message])]_vars

\* C34 witness: a run has emitted two per-segment updates, the second one tick
\* after the first, and the 90 in the tick of the second.
C34_Witness ==
    \E o \in Made :
        /\ Len(heap[o].progress_queue) = 3
        /\ heap[o].progress_queue[1].message.kind = "transcribing"
        /\ heap[o].progress_queue[2].message.kind = "transcribing"
        /\ heap[o].progress_queue[3].progress = 90
        /\ heap[o].updated_at = MaxRunTime
        /\ \E t \in Threads : thr[t].task = o /\ thr[t].pc = "parse"

\* the progress values are integers from 0 to 100; -1 stands for a line that
\* gives none
InRange(progress) == \A i \in 1..Len(progress) : progress[i] = -1 \/ progress[i] \in 0..100

\* C35: every progress value passed to the progress callback and stored in a
\* task is an integer from 0 to 100, whatever timestamp the child prints, a
\* start beyond the duration of the audio included: in run_whisper_process and
\* in the transcribe_audio of SoftWhisper.py.
C35_ProgressInRange ==
    /\ parse.read => InRange(parse.progress)
    /\ parse.desktop_read => InRange(parse.desktop_progress)
    /\ \A o \in Objs : heap[o].progress \in 0..100

\* the child process of the supervisor t has exited (or was killed) and the
\* supervisor is still inside run_whisper_process
ChildGone(t) ==
    /\ thr[t].pc \in {"loop", "read", "drain", "join", "check", "parse"}
    /\ thr[t].proc \in {"exit0", "exit1", "killed"}

\* C36: once the child process has exited, run_whisper_process returns sooner
\* or later, whatever the read_stderr thread does: the join on it has a
\* timeout, and a reader that has not ended by then is left behind.
C36_ReturnsAfterExit ==
    \A t \in Threads : [](ChildGone(t) => <>(thr[t].pc \in {"record", "done"}))

\* C36 witness: run_whisper_process has returned the result of a run whose
\* child exited with code 0, and the read_stderr thread is still reading.
C36_Witness ==
    \E t \in Threads :
        /\ thr[t].pc = "record"
        /\ thr[t].result = "ok"
        /\ thr[t].proc = "exit0"
        /\ stderr_thread[t] = "reading"

\* C37: at most one monitor thread of the namespace runs at any time, however
\* the clients connect and disconnect, a client that connects right after the
\* last one has disconnected included.
C37_OneMonitor ==
    Cardinality({m \in Monitors : is_alive(m)}) <= 1

\* C38: in the desktop application a stop request is not lost and at most one
\* transcription thread is at work: a thread that was at work when
\* stop_processing raised the stop event finds the event up for as long as it
\* drives its child, also when start_transcription is called again meanwhile.
C38_StopNeverLost ==
    /\ \A t \in DeskThreads :
          (desk.threads[t].stopped /\ desk.threads[t].proc = "running")
              => desk.transcription_stop_event
    /\ Cardinality({t \in DeskThreads : DeskActive(t)}) <= 1

\* C39: generate_srt answers with the error 'transcription not finished' exactly
\* when the stored task is not Completed, and for a Completed task whose SRT
\* file was saved it answers with success.
C39_SrtWhenCompleted ==
    \A id \in TaskIds :
        get_task(id) # 0 =>
            /\ (generate_srt(id, TRUE).error = "transcription not finished")
                   <=> (heap[get_task(id)].status # COMPLETED)
            /\ (heap[get_task(id)].status = COMPLETED /\ heap[get_task(id)].result # None)
                   => generate_srt(id, TRUE).success

\* C40: an on_subscribe_task call answers its caller with exactly one terminal
\* notification that matches the status when the task is terminal, with the
\* current progress and then subscription_confirmed when the task is Pending or
\* Running, and with one error when the id is unknown. A task whose status
\* changes during the call may be answered for any status it had meanwhile.
SubscribeReturns == sub'.n = sub.n + 1 \/ (sub.pc # "idle" /\ sub'.pc = "idle")

SubscribeEmitted ==
    [i \in 1..(Len(events') - Len(events)) |-> events'[Len(events) + i].kind]

SubscribeReply(status) ==
    IF Terminal(status)
    THEN <<TerminalEvent(status)>>
    ELSE <<"progress_update", "subscription_confirmed">>

C40_SubscribeReply ==
    [][(SubscribeReturns /\ sub'.pc = "idle") =>
          IF sub'.task = 0
          THEN SubscribeEmitted = <<"error">>
          ELSE \E status \in sub'.seen : SubscribeEmitted = SubscribeReply(status)]_vars

(* ========================== specifications ============================ *)
\* the steps of the supervisor threads up to their last one, and the steps of
\* their child processes
SuperviseRun ==
    \/ \E t \in Threads : SupBegin(t)
    \/ \E t \in Threads, how \in {"transcribe_exc", "model_missing", "process_exc", "spawned"} :
          SupTranscribe(t, how)
    \/ \E t \in Threads, killed \in BOOLEAN : SupLoop(t, killed)
    \/ \E t \in Threads, line \in Lines : SupRead(t, line)
    \/ \E t \in Threads : SupDrain(t)
    \/ \E t \in Threads : SupCheck(t)
    \/ \E t \in Threads : SupParse(t)
    \/ \E t \in Threads, code \in {"exit0", "exit1"} : ProcExit(t, code)
    \/ \E t \in Threads : ProcMute(t)

\* the steps of the supervisor threads and of their child processes, as all
\* who take the registry lock see them: the record of the result is one step
Supervise ==
    \/ SuperviseRun
    \/ \E t \in Threads : SupRecord(t)

\* the registry under concurrent supervision: up to SupObjs tasks, up to
\* MaxThreads supervisors, ids reused, with input files that exist (create_task
\* on a missing file is part of the other specifications)
Next ==
    \/ \E id \in TaskIds, path \in Paths :
          nobj < SupObjs /\ CreateTask(id, path, TRUE) /\ UNCHANGED aux
    \/ \E id \in TaskIds : StartTask(id) /\ UNCHANGED aux
    \/ \E id \in TaskIds : CancelTask(id) /\ UNCHANGED aux
    \/ Supervise /\ UNCHANGED aux
    \/ Tick /\ UNCHANGED aux

Spec == Init /\ [][Next]_vars

\* the registry at its capacity: up to MaxObjs tasks, up to CapThreads supervisors
NextCapacity ==
    \/ \E id \in TaskIds, path \in Paths, exists \in BOOLEAN :
          CreateTask(id, path, exists) /\ UNCHANGED aux
    \/ \E id \in TaskIds : nthr < CapThreads /\ StartTask(id) /\ UNCHANGED aux
    \/ \E id \in TaskIds : CancelTask(id) /\ UNCHANGED aux
    \/ Supervise /\ UNCHANGED aux
    \/ Tick /\ UNCHANGED aux

SpecCapacity == Init /\ [][NextCapacity]_vars

\* one task, its supervisor, and the socket layer that reports on it
NextEvents ==
    \/ \E id \in TaskIds, path \in Paths, exists \in BOOLEAN :
          nobj < EvObjs /\ CreateTask(id, path, exists) /\ UNCHANGED aux
    \/ \E id \in TaskIds : nthr < EvThreads /\ StartTask(id) /\ UNCHANGED aux
    \/ \E id \in TaskIds : CancelTask(id) /\ UNCHANGED aux
    \/ Supervise /\ UNCHANGED aux
    \/ Tick /\ UNCHANGED aux
    \/ \E c \in Clients, id \in TaskIds : Subscribe(c, id)
    \/ MonitorPass
    \/ MonitorWake

SpecEvents == Init /\ [][NextEvents]_vars

\* the history of the terminal statuses: a task object that gets a terminal
\* status (or another one) has reached it now, one that loses it has none
TrackEnded ==
    ended_at' = [o \in Objs |->
        IF ~Terminal(heap'[o].status) THEN -1
        ELSE IF heap'[o].status # heap[o].status THEN now
        ELSE ended_at[o]]

\* one task, its supervisor, and the clean-up of the registry
NextClean ==
    \/ \E id \in TaskIds, path \in Paths, exists \in BOOLEAN :
          nobj < EvObjs /\ CreateTask(id, path, exists) /\ UNCHANGED <<events, mon, parse, reader, canceller, stderr_thread, ns, desk, sub>> /\ TrackEnded
    \/ \E id \in TaskIds :
          nthr < EvThreads /\ StartTask(id) /\ UNCHANGED <<events, mon, parse, reader, canceller, stderr_thread, ns, desk, sub>> /\ TrackEnded
    \/ \E id \in TaskIds : CancelTask(id) /\ UNCHANGED <<events, mon, parse, reader, canceller, stderr_thread, ns, desk, sub>> /\ TrackEnded
    \/ Supervise /\ UNCHANGED <<events, mon, parse, reader, canceller, stderr_thread, ns, desk, sub>> /\ TrackEnded
    \/ Tick /\ UNCHANGED aux
    \/ \E max_age \in 0..MaxAge : CleanCompleted(max_age) /\ UNCHANGED aux

SpecClean == Init /\ [][NextClean]_vars

\* one task, its supervisor, and a request handler that reads the task while
\* the supervisor records the result
NextReader ==
    \/ \E id \in TaskIds, path \in Paths, exists \in BOOLEAN :
          nobj < EvObjs /\ CreateTask(id, path, exists) /\ UNCHANGED aux
    \/ \E id \in TaskIds : nthr < EvThreads /\ StartTask(id) /\ UNCHANGED aux
    \/ \E id \in TaskIds : CancelTask(id) /\ UNCHANGED aux
    \/ SuperviseRun /\ UNCHANGED aux
    \/ \E t \in Threads : SupRecordEnter(t) /\ UNCHANGED aux
    \/ \E t \in Threads : SupComplete(t) /\ UNCHANGED aux
    \/ Tick /\ UNCHANGED aux
    \/ \E kind \in {"subtitles", "status"}, id \in TaskIds : ReaderGet(kind, id)
    \/ ReaderStatus
    \/ ReaderField

SpecReader == Init /\ [][NextReader]_vars

\* one task, its supervisor, and cancel_task calls that run beside it, the
\* statements inside the registry lock one by one
NextRace ==
    \/ \E id \in TaskIds, path \in Paths :
          nobj < EvObjs /\ CreateTask(id, path, TRUE) /\ UNCHANGED aux
    \/ \E id \in TaskIds : nthr < EvThreads /\ StartTask(id) /\ UNCHANGED aux
    \/ \E id \in TaskIds : CancelEnter(id)
    \/ CancelStatement
    \/ SuperviseRun /\ UNCHANGED aux
    \/ \E t \in Threads : SupRecordEnter(t) /\ UNCHANGED aux
    \/ \E t \in Threads : SupComplete(t) /\ UNCHANGED aux
    \/ Tick /\ UNCHANGED aux

SpecRace == Init /\ [][NextRace]_vars

\* one task and its supervisor, with a child that prints up to MaxRunLines
\* lines while the clock goes up to MaxRunTime
NextThrottle ==
    \/ \E id \in TaskIds, path \in Paths :
          nobj < EvObjs /\ CreateTask(id, path, TRUE) /\ UNCHANGED aux
    \/ \E id \in TaskIds : nthr < EvThreads /\ StartTask(id) /\ UNCHANGED aux
    \/ \E id \in TaskIds : CancelTask(id) /\ UNCHANGED aux
    \/ \E t \in Threads : SupBegin(t) /\ UNCHANGED aux
    \/ \E t \in Threads, how \in {"transcribe_exc", "model_missing", "process_exc", "spawned"} :
          SupTranscribe(t, how) /\ UNCHANGED aux
    \/ \E t \in Threads, killed \in BOOLEAN : SupLoop(t, killed) /\ UNCHANGED aux
    \/ \E t \in Threads, line \in Lines : SupReadLine(t, line, MaxRunLines) /\ UNCHANGED aux
    \/ \E t \in Threads : SupDrain(t) /\ UNCHANGED aux
    \/ \E t \in Threads : SupCheck(t) /\ UNCHANGED aux
    \/ \E t \in Threads : SupParse(t) /\ UNCHANGED aux
    \/ \E t \in Threads : SupRecord(t) /\ UNCHANGED aux
    \/ \E t \in Threads, code \in {"exit0", "exit1"} : ProcExit(t, code) /\ UNCHANGED aux
    \/ TickTo(MaxRunTime) /\ UNCHANGED aux

SpecThrottle == Init /\ [][NextThrottle]_vars

\* one task, its supervisor and the supervisor's read_stderr thread
NextJoin ==
    \/ \E id \in TaskIds, path \in Paths :
          nobj < EvObjs /\ CreateTask(id, path, TRUE) /\ UNCHANGED aux
    \/ \E id \in TaskIds : nthr < EvThreads /\ StartTask(id) /\ UNCHANGED aux
    \/ \E id \in TaskIds : CancelTask(id) /\ UNCHANGED aux
    \/ \E t \in Threads : SupBegin(t) /\ UNCHANGED aux
    \/ \E t \in Threads, how \in {"transcribe_exc", "model_missing", "process_exc", "spawned"} :
          SupSpawn(t, how)
    \/ \E t \in Threads, killed \in BOOLEAN : SupLoop(t, killed) /\ UNCHANGED aux
    \/ \E t \in Threads, line \in Lines : SupRead(t, line) /\ UNCHANGED aux
    \/ \E t \in Threads : SupDrainOut(t) /\ UNCHANGED aux
    \/ \E t \in Threads : SupJoin(t) /\ UNCHANGED aux
    \/ \E t \in Threads : SupCheck(t) /\ UNCHANGED aux
    \/ \E t \in Threads : SupParse(t) /\ UNCHANGED aux
    \/ \E t \in Threads : SupRecord(t) /\ UNCHANGED aux
    \/ \E t \in Threads, code \in {"exit0", "exit1"} : ProcExit(t, code) /\ UNCHANGED aux
    \/ \E t \in Threads : ProcMute(t) /\ UNCHANGED aux
    \/ \E t \in Threads : ReadStderrEnd(t)
    \/ Tick /\ UNCHANGED aux

SpecJoin == Init /\ [][NextJoin]_vars

\* the steps the supervisor thread t of SpecJoin takes by itself
SupOwnJoin(t) ==
    \/ SupBegin(t) /\ UNCHANGED aux
    \/ \E how \in {"transcribe_exc", "model_missing", "process_exc", "spawned"} : SupSpawn(t, how)
    \/ (\E killed \in BOOLEAN : SupLoop(t, killed)) /\ UNCHANGED aux
    \/ thr[t].proc # "running" /\ SupRead(t, -1) /\ UNCHANGED aux
    \/ SupDrainOut(t) /\ UNCHANGED aux
    \/ SupJoin(t) /\ UNCHANGED aux
    \/ SupCheck(t) /\ UNCHANGED aux
    \/ SupParse(t) /\ UNCHANGED aux
    \/ SupRecord(t) /\ UNCHANGED aux

\* SpecJoin with the supervisor threads scheduled; nothing is promised about
\* the child process, about its stderr or about the read_stderr thread
FairSpecJoin ==
    /\ SpecJoin
    /\ \A t \in Threads : WF_vars(SupOwnJoin(t))

\* the namespace: clients connect and disconnect beside the monitor threads
NextMonitor ==
    \/ \E sid \in Sids : OnConnect(sid)
    \/ \E sid \in Sids : OnDisconnect(sid)
    \/ \E m \in Monitors : MonitorWhile(m)
    \/ \E m \in Monitors : MonitorTurn(m)

SpecMonitor == Init /\ [][NextMonitor]_vars

\* the desktop application: the user at the start and stop buttons, the event
\* loop, the transcription threads and their child processes
NextDesk ==
    \/ StartTranscription
    \/ StopProcessing
    \/ EnableButtons
    \/ \E t \in DeskThreads : DeskBegin(t)
    \/ \E t \in DeskThreads : DeskLoop(t)
    \/ \E t \in DeskThreads : DeskProcExit(t)
    \/ \E t \in DeskThreads : DeskFinally(t)

SpecDesk == Init /\ [][NextDesk]_vars

\* subscriptions beside a supervisor that records its outcome statement by
\* statement
NextSubscribe ==
    \/ \E id \in TaskIds, path \in Paths, exists \in BOOLEAN :
          nobj < EvObjs /\ CreateTask(id, path, exists) /\ SubscribeWatch
    \/ \E id \in TaskIds : nthr < EvThreads /\ StartTask(id) /\ SubscribeWatch
    \/ \E id \in TaskIds : CancelTask(id) /\ SubscribeWatch
    \/ SuperviseRun /\ SubscribeWatch
    \/ \E t \in Threads : SupRecordEnter(t) /\ SubscribeWatch
    \/ \E t \in Threads : SupComplete(t) /\ SubscribeWatch
    \/ Tick /\ SubscribeWatch
    \/ \E c \in Clients, id \in TaskIds : SubscribeEnter(c, id)
    \/ SubscribeTest
    \/ SubscribeResult

SpecSubscribe == Init /\ [][NextSubscribe]_vars

\* the parser at work on any output
NextParse == ReadOutput \/ ParseOutput \/ ReadOutputDesktop

SpecParse == InitParse /\ [][NextParse]_vars

\* the steps the supervisor thread t takes by itself, whatever its child
\* process does: all but the read of a line the child has yet to print
SupOwn(t) ==
    \/ SupBegin(t)
    \/ \E how \in {"transcribe_exc", "model_missing", "process_exc", "spawned"} :
          SupTranscribe(t, how)
    \/ \E killed \in BOOLEAN : SupLoop(t, killed)
    \/ thr[t].proc # "running" /\ SupRead(t, -1)
    \/ SupDrain(t)
    \/ SupCheck(t)
    \/ SupParse(t)
    \/ SupRecord(t)

\* SpecEvents with the threads scheduled: the monitor thread and every
\* supervisor thread get to run; nothing is promised about the clients, the
\* callers of the registry or the child processes
FairSpecEvents ==
    /\ SpecEvents
    /\ WF_vars(MonitorPass)
    /\ WF_vars(MonitorWake)
    /\ \A t \in Threads : WF_vars(SupOwn(t) /\ UNCHANGED aux)

\* SpecCapacity with the supervisor threads scheduled and with child processes
\* that exit: every supervisor thread gets to run and every child process that
\* is alive exits sooner or later; nothing is promised about the callers of the
\* registry
FairSpecCapacity ==
    /\ SpecCapacity
    /\ \A t \in Threads : WF_vars(SupOwn(t) /\ UNCHANGED aux)
    /\ \A t \in Threads : WF_vars((\E code \in {"exit0", "exit1"} : ProcExit(t, code)) /\ UNCHANGED aux)

=============================================================================
